---- MODULE Spec2Model ----
(***************************************************************************)
(* A model of the VirtualServer / VirtualServerRoute validator             *)
(* (pkg/apis/configuration/validation/validation.go) and of the            *)
(* configuration generator (internal/configs/virtualserver.go) of the      *)
(* NGINX Kubernetes Ingress Controller.                                    *)
(*                                                                         *)
(* Go strings are TLA+ strings; a Go pointer is a sequence of length 0     *)
(* (nil) or 1; a Go slice is a sequence.  Go indices are 0-based, so the   *)
(* i-th element of a TLA+ sequence carries the Go index i-1.               *)
(***************************************************************************)
EXTENDS Integers, Sequences, FiniteSets, TLC

VARIABLES
    virtualServerEx,  \* VirtualServerEx: VirtualServer, Endpoints, VirtualServerRoutes,
                      \* ExternalNameSvcs; the validator gets its resources, the generator all
    vsc,              \* the virtualServerConfigurator: cfgParams, isPlus,
                      \* isResolverConfigured, warnings
    request,          \* the value of each NGINX variable in one request (to evaluate maps)
    vsErrs,           \* what ValidateVirtualServer returned (the error list), once called
    vsrErrs,          \* what ValidateVirtualServerRoute returned for each VSR, once called
    vsCfg,            \* what GenerateVirtualServerConfig returned, once called
    panicked,         \* GenerateVirtualServerConfig dereferenced a nil Action
    pc,               \* the call that comes next
    parent,           \* the VirtualServer host and route path a VirtualServerRoute is
                      \* validated for by ValidateVirtualServerRouteForVirtualServer
    heap,             \* the Warnings maps allocated so far, by address (vsc.warnings is an
                      \* address where several calls on one configurator are followed)
    calls,            \* the GenerateVirtualServerConfig calls made on the configurator:
                      \* each one's input, position, local variables and what it returned
    fnArgs,           \* the arguments of a function that is called on its own
    fnResult          \* what that function returned, once called

vars ==
    <<virtualServerEx, vsc, request, vsErrs, vsrErrs, vsCfg, panicked, pc, parent, heap, calls,
      fnArgs, fnResult>>

(***************************************************************************)
(* Strings                                                                 *)
(***************************************************************************)

Lower == {"a","b","c","d","e","f","g","h","i","j","k","l","m",
          "n","o","p","q","r","s","t","u","v","w","x","y","z"}
Upper == {"A","B","C","D","E","F","G","H","I","J","K","L","M",
          "N","O","P","Q","R","S","T","U","V","W","X","Y","Z"}
Digit == {"0","1","2","3","4","5","6","7","8","9"}
Space == {" ", "\t", "\n", "\r", "\f"}

Char(s, i) == SubSeq(s, i, i)

HasPrefix(s, p) == Len(s) >= Len(p) /\ SubSeq(s, 1, Len(p)) = p

HasSuffix(s, p) == Len(s) >= Len(p) /\ SubSeq(s, Len(s) - Len(p) + 1, Len(s)) = p

TrimPrefix(s, p) == IF HasPrefix(s, p) THEN SubSeq(s, Len(p) + 1, Len(s)) ELSE s

Contains(s, p) == \E i \in 1..(Len(s) - Len(p) + 1) : SubSeq(s, i, i + Len(p) - 1) = p

AllChars(s, class) == \A i \in 1..Len(s) : Char(s, i) \in class

RECURSIVE ReplaceAll(_, _, _)
ReplaceAll(s, old, new) ==
    IF Len(s) = 0 THEN ""
    ELSE (IF Char(s, 1) = old THEN new ELSE Char(s, 1)) \o ReplaceAll(Tail(s), old, new)

RECURSIVE Repeat(_, _)
Repeat(s, count) == IF count <= 0 THEN "" ELSE s \o Repeat(s, count - 1)

\* strings.Split(s, sep) for a one-character separator: the texts between the separators
Split(s, sep) ==
    LET at == { i \in 1..Len(s) : Char(s, i) = sep }
        nth(n) == CHOOSE p \in at : Cardinality({ q \in at : q < p }) = n - 1
    IN [n \in 1..(Cardinality(at) + 1) |->
           SubSeq(s, IF n = 1 THEN 1 ELSE nth(n - 1) + 1,
                     IF n = Cardinality(at) + 1 THEN Len(s) ELSE nth(n) - 1)]

DigitValue(c) == CHOOSE n \in 0..9 : ToString(n) = c

RECURSIVE ParseDigits(_, _)
ParseDigits(s, acc) ==
    IF Len(s) = 0 THEN acc ELSE ParseDigits(Tail(s), acc * 10 + DigitValue(Char(s, 1)))

\* fmt.Sprintf("%d", n)
FormatInt(n) == ToString(n)

(***************************************************************************)
(* Grammars of k8s.io/apimachinery/pkg/util/validation and of the          *)
(* validator's own regular expressions                                     *)
(***************************************************************************)

\* dns1123LabelFmt [a-z0-9]([-a-z0-9]*[a-z0-9])?
IsDNS1123LabelFmt(s) ==
    /\ Len(s) > 0
    /\ AllChars(s, Lower \cup Digit \cup {"-"})
    /\ Char(s, 1) # "-"
    /\ Char(s, Len(s)) # "-"

\* validation.IsDNS1123Subdomain: dot-separated DNS-1123 labels, at most 253 characters
IsDNS1123Subdomain(s) ==
    /\ Len(s) <= 253
    /\ \A i \in 1..Len(Split(s, ".")) : IsDNS1123LabelFmt(Split(s, ".")[i])

\* validation.IsDNS1035Label: [a-z]([-a-z0-9]*[a-z0-9])?, at most 63 characters
IsDNS1035Label(s) ==
    /\ Len(s) > 0
    /\ Len(s) <= 63
    /\ AllChars(s, Lower \cup Digit \cup {"-"})
    /\ Char(s, 1) \in Lower
    /\ Char(s, Len(s)) # "-"

\* validation.IsHTTPHeaderName: [-A-Za-z0-9]+
IsHTTPHeaderName(s) == Len(s) > 0 /\ AllChars(s, Lower \cup Upper \cup Digit \cup {"-"})

\* qualifiedNameFmt ([A-Za-z0-9][-A-Za-z0-9_.]*)?[A-Za-z0-9], at most 63 characters
IsQualifiedNamePart(s) ==
    /\ Len(s) > 0
    /\ Len(s) <= 63
    /\ AllChars(s, Lower \cup Upper \cup Digit \cup {"-", "_", "."})
    /\ Char(s, 1) \in Lower \cup Upper \cup Digit
    /\ Char(s, Len(s)) \in Lower \cup Upper \cup Digit

\* validation.IsQualifiedName: [prefix/]name with a DNS subdomain prefix
IsQualifiedName(s) ==
    LET parts == Split(s, "/") IN
    CASE Len(parts) = 1 -> IsQualifiedNamePart(parts[1])
      [] Len(parts) = 2 -> /\ Len(parts[1]) > 0
                           /\ IsDNS1123Subdomain(parts[1])
                           /\ IsQualifiedNamePart(parts[2])
      [] OTHER -> FALSE

\* validation.IsValidPortNum
IsValidPortNum(port) == 1 <= port /\ port <= 65535

\* validation.IsInRange
IsInRange(value, min, max) == min <= value /\ value <= max

\* the number of backslashes that stand immediately before position i
backslashesBefore(s, i) ==
    Cardinality({ k \in 1..(i - 1) : \A l \in k..(i - 1) : Char(s, l) = "\\" })

\* position i is the second character of a pair \. : an odd run of backslashes precedes it
isEscapedAt(s, i) == backslashesBefore(s, i) % 2 = 1

\* ^([^ forbidden \\]|\\.)*$ : no forbidden character outside a pair \. , every backslash
\* opens or closes a pair, and . matches no newline
escapedStringMatches(s, forbidden) ==
    /\ \A i \in 1..Len(s) :
           /\ Char(s, i) \in forbidden => isEscapedAt(s, i)
           /\ Char(s, i) = "\n" => ~isEscapedAt(s, i)
    /\ ~isEscapedAt(s, Len(s) + 1)

\* escapedStringsFmtRegexp ^([^"\\]|\\.)*$
escapedStringsFmtRegexp(s) == escapedStringMatches(s, {"\""})

\* pathRegexp ^/[^\s{};]*$
pathRegexp(s) ==
    /\ HasPrefix(s, "/")
    /\ \A i \in 2..Len(s) : Char(s, i) \notin Space \cup {"{", "}", ";"}

\* cookieNameRegexp ^[_A-Za-z0-9]+$
cookieNameRegexp(s) == Len(s) > 0 /\ AllChars(s, Lower \cup Upper \cup Digit \cup {"_"})

\* argumentNameRegexp ^[_A-Za-z0-9]+$
argumentNameRegexp(s) == Len(s) > 0 /\ AllChars(s, Lower \cup Upper \cup Digit \cup {"_"})

(***************************************************************************)
(* Pointers, field paths (field.Path) and errors (field.Error)             *)
(***************************************************************************)

Nil == <<>>
Ptr(v) == <<v>>
IsNil(p) == Len(p) = 0
Deref(p) == p[1]

\* field.Path.Child and field.Path.Index, rendered as field.Path.String does
Child(fieldPath, name) == fieldPath \o "." \o name
Index(fieldPath, i) == fieldPath \o "[" \o ToString(i) \o "]"

\* field.Required, field.Invalid, field.Duplicate, field.NotFound, field.Forbidden
Required(fieldPath) == [Type |-> "Required", Field |-> fieldPath]
Invalid(fieldPath) == [Type |-> "Invalid", Field |-> fieldPath]
Duplicate(fieldPath) == [Type |-> "Duplicate", Field |-> fieldPath]
NotFound(fieldPath) == [Type |-> "NotFound", Field |-> fieldPath]
Forbidden(fieldPath) == [Type |-> "Forbidden", Field |-> fieldPath]

\* appends the lists of a sequence of error lists, in order
RECURSIVE Flatten(_)
Flatten(lists) == IF Len(lists) = 0 THEN <<>> ELSE Head(lists) \o Flatten(Tail(lists))

(***************************************************************************)
(* Validation of hosts, TLS and upstreams                                  *)
(***************************************************************************)

validateHost(host, fieldPath) ==
    IF host = "" THEN <<Required(fieldPath)>>
    ELSE IF ~IsDNS1123Subdomain(host) THEN <<Invalid(fieldPath)>>
    ELSE <<>>

validRedirectStatusCodes == {301, 302, 307, 308}

validateRedirectStatusCode(code, fieldPath) ==
    IF code \notin validRedirectStatusCodes THEN <<Invalid(fieldPath)>> ELSE <<>>

validateTLSRedirect(redirect, fieldPath) ==
    IF IsNil(redirect) THEN <<>>
    ELSE (IF ~IsNil(Deref(redirect).Code)
          THEN validateRedirectStatusCode(Deref(Deref(redirect).Code), Child(fieldPath, "code"))
          ELSE <<>>)
      \o (IF Deref(redirect).BasedOn \notin {"", "scheme", "x-forwarded-proto"}
          THEN <<Invalid(Child(fieldPath, "basedOn"))>>
          ELSE <<>>)

validateSecretName(name, fieldPath) ==
    IF name = "" THEN <<>>
    ELSE IF ~IsDNS1123Subdomain(name) THEN <<Invalid(fieldPath)>>
    ELSE <<>>

validateTLS(tls, fieldPath) ==
    IF IsNil(tls) THEN <<>>
    ELSE validateSecretName(Deref(tls).Secret, Child(fieldPath, "secret"))
      \o validateTLSRedirect(Deref(tls).Redirect, Child(fieldPath, "redirect"))

validatePositiveIntOrZero(n, fieldPath) ==
    IF n < 0 THEN <<Invalid(fieldPath)>> ELSE <<>>

validatePositiveIntOrZeroFromPointer(n, fieldPath) ==
    IF IsNil(n) THEN <<>>
    ELSE IF Deref(n) < 0 THEN <<Invalid(fieldPath)>>
    ELSE <<>>

\* configs.ParseTime accepts NGINX durations: space-separated <digits><unit> terms, the
\* unit optional
TimeUnits == {"", "ms", "s", "m", "h", "d", "w", "M", "y"}

IsTimeTerm(t) ==
    \E k \in 1..Len(t) :
        /\ AllChars(SubSeq(t, 1, k), Digit)
        /\ SubSeq(t, k + 1, Len(t)) \in TimeUnits

ParseTime(time) ==
    \A i \in 1..Len(Split(time, " ")) : IsTimeTerm(Split(time, " ")[i])

validateTime(time, fieldPath) ==
    IF time = "" THEN <<>>
    ELSE IF ~ParseTime(time) THEN <<Invalid(fieldPath)>>
    ELSE <<>>

validatePath(path, fieldPath) ==
    IF path = "" THEN <<Required(fieldPath)>>
    ELSE IF ~pathRegexp(path) THEN <<Invalid(fieldPath)>>
    ELSE <<>>

\* strconv.ParseInt(number, 10, 64): [ok, n]; an optional sign and at least one digit
validateIntFromString(number) ==
    LET digits == IF HasPrefix(number, "-") \/ HasPrefix(number, "+")
                  THEN Tail(number) ELSE number
    IN IF Len(digits) > 0 /\ AllChars(digits, Digit)
       THEN [ok |-> TRUE,
             n |-> IF HasPrefix(number, "-") THEN 0 - ParseDigits(digits, 0)
                   ELSE ParseDigits(digits, 0)]
       ELSE [ok |-> FALSE, n |-> 0]

\* "" when the status is valid, otherwise the message
validateStatusCode(status) ==
    IF ~validateIntFromString(status).ok THEN "must be a valid integer"
    ELSE IF validateIntFromString(status).n < 100 \/ validateIntFromString(status).n > 999
         THEN "must be between 100 and 999, inclusive"
    ELSE ""

validateStatusCodeRange(statusRangeStr) ==
    LET statusRange == Split(statusRangeStr, "-") IN
    IF Len(statusRange) # 2 THEN "ranges must only have 2 numbers"
    ELSE IF ~validateIntFromString(statusRange[1]).ok THEN "must be a valid integer"
    ELSE IF ~validateIntFromString(statusRange[2]).ok THEN "must be a valid integer"
    ELSE IF validateStatusCode(statusRange[1]) # "" THEN validateStatusCode(statusRange[1])
    ELSE IF validateStatusCode(statusRange[2]) # "" THEN validateStatusCode(statusRange[2])
    ELSE IF validateIntFromString(statusRange[2]).n <= validateIntFromString(statusRange[1]).n
         THEN "range limits must be min < max"
    ELSE ""

validateStatusMatch(s, fieldPath) ==
    IF s = "" THEN <<>>
    ELSE (IF HasPrefix(s, "!") /\ ~HasPrefix(s, "! ") THEN <<Invalid(fieldPath)>> ELSE <<>>)
      \o Flatten([i \in 1..Len(Split(s, " ")) |->
            LET value == Split(s, " ")[i] IN
            IF value = "!"
            THEN (IF i - 1 # 0 THEN <<Invalid(fieldPath)>> ELSE <<>>)
            ELSE IF Contains(value, "-")
            THEN (IF validateStatusCodeRange(value) # "" THEN <<Invalid(fieldPath)>> ELSE <<>>)
            ELSE IF validateStatusCode(value) # "" THEN <<Invalid(fieldPath)>>
            ELSE <<>>])

\* The model's HealthCheck holds Enable, Path, Fails, Passes, Port and StatusMatch; the
\* time fields are "" and Headers is empty, for which the validator reports nothing.
validateUpstreamHealthCheck(hc, fieldPath) ==
    IF IsNil(hc) THEN <<>>
    ELSE (IF Deref(hc).Path # "" THEN validatePath(Deref(hc).Path, Child(fieldPath, "path"))
          ELSE <<>>)
      \o validatePositiveIntOrZero(Deref(hc).Fails, Child(fieldPath, "fails"))
      \o validatePositiveIntOrZero(Deref(hc).Passes, Child(fieldPath, "passes"))
      \o validateStatusMatch(Deref(hc).StatusMatch, Child(fieldPath, "statusMatch"))
      \o (IF Deref(hc).Port > 0 /\ ~IsValidPortNum(Deref(hc).Port)
          THEN <<Invalid(Child(fieldPath, "port"))>>
          ELSE <<>>)

isCookieName(value) == cookieNameRegexp(value)

isArgumentName(value) == argumentNameRegexp(value)

validateSessionCookie(sc, fieldPath) ==
    IF IsNil(sc) THEN <<>>
    ELSE (IF Deref(sc).Name = "" THEN <<Required(Child(fieldPath, "name"))>>
          ELSE IF ~isCookieName(Deref(sc).Name) THEN <<Invalid(Child(fieldPath, "name"))>>
          ELSE <<>>)
      \o (IF Deref(sc).Path # "" THEN validatePath(Deref(sc).Path, Child(fieldPath, "path"))
          ELSE <<>>)
      \o (IF Deref(sc).Expires # "max"
          THEN validateTime(Deref(sc).Expires, Child(fieldPath, "expires"))
          ELSE <<>>)
      \o (IF Deref(sc).Domain # "" /\ ~IsDNS1123Subdomain(TrimPrefix(Deref(sc).Domain, "."))
          THEN <<Invalid(Child(fieldPath, "domain"))>>
          ELSE <<>>)

validateQueue(queue, fieldPath) ==
    IF IsNil(queue) THEN <<>>
    ELSE validateTime(Deref(queue).Timeout, Child(fieldPath, "timeout"))
      \o (IF Deref(queue).Size <= 0 THEN <<Required(Child(fieldPath, "size"))>> ELSE <<>>)

\* configs.ParseLBMethod / configs.ParseLBMethodForPlus: the methods each tier accepts
LBMethodsOSS == {"round_robin", "least_conn", "ip_hash", "random", "random two",
                 "random two least_conn"}
LBMethodsPlusOnly == {"least_time header", "least_time last_byte",
                      "random two least_time=header", "random two least_time=last_byte"}

ParseLBMethod(method) ==
    method \in LBMethodsOSS \/ (HasPrefix(method, "hash ") /\ Len(method) > 5)

ParseLBMethodForPlus(method) ==
    ParseLBMethod(method) \/ method \in LBMethodsPlusOnly

validateUpstreamLBMethod(lBMethod, fieldPath, plus) ==
    IF lBMethod = "" THEN <<>>
    ELSE IF plus
         THEN (IF ~ParseLBMethodForPlus(lBMethod) THEN <<Invalid(fieldPath)>> ELSE <<>>)
    ELSE IF ~ParseLBMethod(lBMethod) THEN <<Invalid(fieldPath)>>
    ELSE <<>>

validateDNS1035Label(name, fieldPath) ==
    IF name = "" THEN <<Required(fieldPath)>>
    ELSE IF ~IsDNS1035Label(name) THEN <<Invalid(fieldPath)>>
    ELSE <<>>

validateUpstreamName(name, fieldPath) == validateDNS1035Label(name, fieldPath)

validateServiceName(name, fieldPath) == validateDNS1035Label(name, fieldPath)

\* rejectPlusResourcesInOSS without the queue
rejectPlusResourcesInOSSNoQueue(upstream, idxPath, plus) ==
    IF plus THEN <<>>
    ELSE (IF ~IsNil(upstream.HealthCheck) THEN <<Forbidden(Child(idxPath, "healthCheck"))>>
          ELSE <<>>)
      \o (IF upstream.SlowStart # "" THEN <<Forbidden(Child(idxPath, "slow-start"))>>
          ELSE <<>>)
      \o (IF ~IsNil(upstream.SessionCookie)
          THEN <<Forbidden(Child(idxPath, "sessionCookie"))>>
          ELSE <<>>)

\* rejectPlusResourcesInOSS without the health check
rejectPlusResourcesInOSSNoHealthCheck(upstream, idxPath, plus) ==
    IF plus THEN <<>>
    ELSE (IF upstream.SlowStart # "" THEN <<Forbidden(Child(idxPath, "slow-start"))>>
          ELSE <<>>)
      \o (IF ~IsNil(upstream.SessionCookie)
          THEN <<Forbidden(Child(idxPath, "sessionCookie"))>>
          ELSE <<>>)
      \o (IF ~IsNil(upstream.Queue) THEN <<Forbidden(Child(idxPath, "queue"))>> ELSE <<>>)

rejectPlusResourcesInOSS(upstream, idxPath, plus) ==
    IF plus THEN <<>>
    ELSE (IF ~IsNil(upstream.HealthCheck) THEN <<Forbidden(Child(idxPath, "healthCheck"))>>
          ELSE <<>>)
      \o (IF upstream.SlowStart # "" THEN <<Forbidden(Child(idxPath, "slow-start"))>>
          ELSE <<>>)
      \o (IF ~IsNil(upstream.SessionCookie)
          THEN <<Forbidden(Child(idxPath, "sessionCookie"))>>
          ELSE <<>>)
      \o (IF ~IsNil(upstream.Queue) THEN <<Forbidden(Child(idxPath, "queue"))>> ELSE <<>>)

\* validateUpstream without the check for a name seen before
validateUpstreamNoDuplicate(u, idxPath, plus, upstreamNames) ==
    [errs |->
        validateUpstreamName(u.Name, Child(idxPath, "name"))
        \o validateServiceName(u.Service, Child(idxPath, "service"))
        \o validateUpstreamLBMethod(u.LBMethod, Child(idxPath, "lb-method"), plus)
        \o validatePositiveIntOrZeroFromPointer(u.Keepalive, Child(idxPath, "keepalive"))
        \o validateUpstreamHealthCheck(u.HealthCheck, Child(idxPath, "healthCheck"))
        \o validateTime(u.SlowStart, Child(idxPath, "slow-start"))
        \o validateQueue(u.Queue, Child(idxPath, "queue"))
        \o validateSessionCookie(u.SessionCookie, Child(idxPath, "sessionCookie"))
        \o (IF ~IsValidPortNum(u.Port) THEN <<Invalid(Child(idxPath, "port"))>> ELSE <<>>)
        \o rejectPlusResourcesInOSS(u, idxPath, plus),
     names |-> upstreamNames \cup {u.Name}]

\* The body of validateUpstreams' loop for upstreams[i], given the names inserted so far:
\* [errs, names].  The model's Upstream holds Name, Service, Port, LBMethod, Keepalive,
\* TLS, HealthCheck, SlowStart, Queue and SessionCookie; the other fields are at their zero
\* value, for which the validator reports nothing.
validateUpstream(u, idxPath, plus, upstreamNames) ==
    LET upstreamErrors == validateUpstreamName(u.Name, Child(idxPath, "name")) IN
    [errs |->
        (IF Len(upstreamErrors) > 0 THEN upstreamErrors
         ELSE IF u.Name \in upstreamNames THEN <<Duplicate(Child(idxPath, "name"))>>
         ELSE <<>>)
        \o validateServiceName(u.Service, Child(idxPath, "service"))
        \o validateUpstreamLBMethod(u.LBMethod, Child(idxPath, "lb-method"), plus)
        \o validatePositiveIntOrZeroFromPointer(u.Keepalive, Child(idxPath, "keepalive"))
        \o validateUpstreamHealthCheck(u.HealthCheck, Child(idxPath, "healthCheck"))
        \o validateTime(u.SlowStart, Child(idxPath, "slow-start"))
        \o validateQueue(u.Queue, Child(idxPath, "queue"))
        \o validateSessionCookie(u.SessionCookie, Child(idxPath, "sessionCookie"))
        \o (IF ~IsValidPortNum(u.Port) THEN <<Invalid(Child(idxPath, "port"))>> ELSE <<>>)
        \o rejectPlusResourcesInOSS(u, idxPath, plus),
     names |->
        IF Len(upstreamErrors) = 0 /\ u.Name \notin upstreamNames
        THEN upstreamNames \cup {u.Name}
        ELSE upstreamNames]

RECURSIVE validateUpstreamsFrom(_, _, _, _, _)
validateUpstreamsFrom(upstreams, fieldPath, plus, i, acc) ==
    IF i > Len(upstreams) THEN acc
    ELSE LET one == validateUpstream(upstreams[i], Index(fieldPath, i - 1), plus, acc.names)
         IN validateUpstreamsFrom(upstreams, fieldPath, plus, i + 1,
                                  [errs |-> acc.errs \o one.errs, names |-> one.names])

\* [errs |-> allErrs, names |-> upstreamNames]
validateUpstreams(upstreams, fieldPath, plus) ==
    validateUpstreamsFrom(upstreams, fieldPath, plus, 1, [errs |-> <<>>, names |-> {}])

(***************************************************************************)
(* Validation of actions, splits, matches and routes                       *)
(***************************************************************************)

countActions(action) ==
    (IF action.Pass # "" THEN 1 ELSE 0)
    + (IF ~IsNil(action.Redirect) THEN 1 ELSE 0)
    + (IF ~IsNil(action.Return) THEN 1 ELSE 0)

\* validateReferencedUpstream without the lookup of the name among the upstreams
validateReferencedUpstreamNoLookup(name, fieldPath, upstreamNames) ==
    validateUpstreamName(name, fieldPath)

validateReferencedUpstream(name, fieldPath, upstreamNames) ==
    LET upstreamErrs == validateUpstreamName(name, fieldPath) IN
    IF Len(upstreamErrs) > 0 THEN upstreamErrs
    ELSE IF name \notin upstreamNames THEN <<NotFound(fieldPath)>>
    ELSE <<>>

\* nginxVariableRegexp \$\{([^}]*)\} : the submatches of FindAllStringSubmatch, the leftmost
\* matches that do not overlap, each running to the first } after its ${
captureVariables(s) ==
    LET opens(i) == i + 1 <= Len(s) /\ SubSeq(s, i, i + 1) = "${"
        closes(i) == CHOOSE k \in (i + 2)..Len(s) :
                         /\ Char(s, k) = "}"
                         /\ \A l \in (i + 2)..(k - 1) : Char(s, l) # "}"
        starts == { i \in 1..Len(s) :
                      /\ opens(i)
                      /\ \E k \in (i + 2)..Len(s) : Char(s, k) = "}"
                      /\ ~\E j \in 1..(i - 1) :
                             opens(j) /\ \A l \in (j + 2)..(i - 1) : Char(s, l) # "}" }
        nth(n) == CHOOSE p \in starts : Cardinality({ q \in starts : q < p }) = n - 1
    IN [n \in 1..Cardinality(starts) |-> SubSeq(s, nth(n) + 2, closes(nth(n)) - 1)]

validRedirectVariableNames == {"scheme", "http_x_forwarded_proto", "request_uri", "host"}

validateVariable(nVar, validVars, fieldPath) ==
    IF nVar \notin validVars THEN <<Invalid(fieldPath)>> ELSE <<>>

isValidSpecialVariableHeader(header) ==
    IsHTTPHeaderName(ReplaceAll(header, "_", "-")) /\ ~Contains(header, "-")

\* strings.SplitN(nVar, "_", 2): value[0] is the text before the first "_", value[1] the
\* text after it
validateSpecialVariable(nVar, fieldPath) ==
    LET cut == CHOOSE k \in 1..Len(nVar) :
                   Char(nVar, k) = "_" /\ \A l \in 1..(k - 1) : Char(nVar, l) # "_"
        value0 == SubSeq(nVar, 1, cut - 1)
        value1 == SubSeq(nVar, cut + 1, Len(nVar))
    IN CASE value0 = "arg" -> IF ~isArgumentName(value1) THEN <<Invalid(fieldPath)>> ELSE <<>>
         [] value0 = "http" ->
                IF ~isValidSpecialVariableHeader(value1) THEN <<Invalid(fieldPath)>> ELSE <<>>
         [] value0 = "cookie" -> IF ~isCookieName(value1) THEN <<Invalid(fieldPath)>> ELSE <<>>
         [] OTHER -> <<>>

validateStringWithVariables(str, fieldPath, validVars, specialVars) ==
    IF HasSuffix(str, "$") THEN <<Invalid(fieldPath)>>
    ELSE IF \E i \in 1..Len(str) :
                /\ Char(str, i) = "$"
                /\ \/ Char(str, i + 1) # "{"
                   \/ ~Contains(SubSeq(str, i + 1, Len(str)), "}")
         THEN <<Invalid(fieldPath)>>
    ELSE Flatten([k \in 1..Len(captureVariables(str)) |->
            LET nVar == captureVariables(str)[k] IN
            IF \E specialVar \in specialVars : HasPrefix(nVar, specialVar)
            THEN validateSpecialVariable(nVar, fieldPath)
            ELSE validateVariable(nVar, validVars, fieldPath)])

validateRedirectURL(redirectURL, fieldPath) ==
    IF redirectURL = "" THEN <<Required(fieldPath)>>
    ELSE IF ~escapedStringsFmtRegexp(redirectURL) THEN <<Invalid(fieldPath)>>
    ELSE validateStringWithVariables(redirectURL, fieldPath, validRedirectVariableNames, {})

validateActionRedirect(redirect, fieldPath) ==
    validateRedirectURL(redirect.URL, Child(fieldPath, "url"))
    \o (IF redirect.Code # 0
        THEN validateRedirectStatusCode(redirect.Code, Child(fieldPath, "code"))
        ELSE <<>>)

validateActionReturnCode(code, fieldPath) ==
    IF (code >= 200 /\ code <= 299) \/ (code >= 400 /\ code <= 599) THEN <<>>
    ELSE <<Invalid(fieldPath)>>

returnBodyVariables ==
    {"request_uri", "request_method", "request_body", "scheme", "args", "host",
     "request_time", "request_length", "nginx_version", "pid", "connection", "remote_addr",
     "remote_port", "time_iso8601", "time_local", "server_addr", "server_port",
     "server_name", "server_protocol", "connections_active", "connections_reading",
     "connections_writing", "connections_waiting"}

returnBodySpecialVariables == {"arg_", "http_", "cookie_"}

validateActionReturnBody(body, fieldPath) ==
    (IF ~escapedStringsFmtRegexp(body) THEN <<Invalid(fieldPath)>> ELSE <<>>)
    \o validateStringWithVariables(body, fieldPath, returnBodyVariables,
                                   returnBodySpecialVariables)

\* actionReturnTypeRegexp ^([^;\{\}"\\]|\\.)*$
actionReturnTypeRegexp(s) == escapedStringMatches(s, {";", "{", "}", "\""})

validateActionReturnType(returnType, fieldPath) ==
    IF ~actionReturnTypeRegexp(returnType) THEN <<Invalid(fieldPath)>> ELSE <<>>

validateActionReturn(r, fieldPath) ==
    IF r.Body = "" THEN <<Required(Child(fieldPath, "body"))>>
    ELSE validateActionReturnBody(r.Body, Child(fieldPath, "body"))
      \o (IF r.Type # "" THEN validateActionReturnType(r.Type, Child(fieldPath, "type"))
          ELSE <<>>)
      \o (IF r.Code # 0 THEN validateActionReturnCode(r.Code, Child(fieldPath, "code"))
          ELSE <<>>)

validateAction(action, fieldPath, upstreamNames) ==
    IF countActions(action) # 1 THEN <<Required(fieldPath)>>
    ELSE (IF action.Pass # ""
          THEN validateReferencedUpstream(action.Pass, Child(fieldPath, "pass"), upstreamNames)
          ELSE <<>>)
      \o (IF ~IsNil(action.Redirect)
          THEN validateActionRedirect(Deref(action.Redirect), Child(fieldPath, "redirect"))
          ELSE <<>>)
      \o (IF ~IsNil(action.Return)
          THEN validateActionReturn(Deref(action.Return), Child(fieldPath, "return"))
          ELSE <<>>)

RECURSIVE SumWeights(_)
SumWeights(splits) ==
    IF Len(splits) = 0 THEN 0 ELSE Head(splits).Weight + SumWeights(Tail(splits))

\* validateSplits without the check that the weights sum to 100
validateSplitsNoSum(splits, fieldPath, upstreamNames) ==
    IF Len(splits) < 2 THEN <<Invalid(fieldPath)>>
    ELSE Flatten([i \in 1..Len(splits) |->
            LET idxPath == Index(fieldPath, i - 1) IN
            (IF ~IsInRange(splits[i].Weight, 1, 99)
             THEN <<Invalid(Child(idxPath, "weight"))>>
             ELSE <<>>)
            \o (IF IsNil(splits[i].Action) THEN <<Required(Child(idxPath, "action"))>>
                ELSE validateAction(Deref(splits[i].Action), Child(idxPath, "action"),
                                    upstreamNames))])

validateSplits(splits, fieldPath, upstreamNames) ==
    IF Len(splits) < 2 THEN <<Invalid(fieldPath)>>
    ELSE Flatten([i \in 1..Len(splits) |->
            LET idxPath == Index(fieldPath, i - 1) IN
            (IF ~IsInRange(splits[i].Weight, 1, 99)
             THEN <<Invalid(Child(idxPath, "weight"))>>
             ELSE <<>>)
            \o (IF IsNil(splits[i].Action) THEN <<Required(Child(idxPath, "action"))>>
                ELSE validateAction(Deref(splits[i].Action), Child(idxPath, "action"),
                                    upstreamNames))])
      \o (IF SumWeights(splits) # 100 THEN <<Invalid(fieldPath)>> ELSE <<>>)

\* regexp.Compile of the route path: the model rejects unbalanced groups and classes and a
\* trailing backslash, the syntax errors its paths can have
RECURSIVE regexpCompileFrom(_, _, _)
regexpCompileFrom(s, depth, inClass) ==
    IF Len(s) = 0 THEN depth = 0 /\ ~inClass
    ELSE IF Char(s, 1) = "\\" THEN Len(s) >= 2 /\ regexpCompileFrom(SubSeq(s, 3, Len(s)), depth, inClass)
    ELSE IF inClass THEN regexpCompileFrom(Tail(s), depth, Char(s, 1) # "]")
    ELSE IF Char(s, 1) = "[" THEN regexpCompileFrom(Tail(s), depth, TRUE)
    ELSE IF Char(s, 1) = "(" THEN regexpCompileFrom(Tail(s), depth + 1, FALSE)
    ELSE IF Char(s, 1) = ")" THEN depth > 0 /\ regexpCompileFrom(Tail(s), depth - 1, FALSE)
    ELSE regexpCompileFrom(Tail(s), depth, FALSE)

regexpCompile(s) == regexpCompileFrom(s, 0, FALSE)

validateRegexPath(path, fieldPath) ==
    IF ~regexpCompile(path) THEN <<Invalid(fieldPath)>>
    ELSE IF ~escapedStringsFmtRegexp(path) THEN <<Invalid(fieldPath)>>
    ELSE <<>>

validateRoutePath(path, fieldPath) ==
    IF path = "" THEN <<Required(fieldPath)>>
    ELSE IF HasPrefix(path, "~") THEN validateRegexPath(path, fieldPath)
    ELSE IF HasPrefix(path, "/") THEN validatePath(path, fieldPath)
    ELSE IF HasPrefix(path, "=") THEN validatePath(TrimPrefix(path, "="), fieldPath)
    ELSE <<Invalid(fieldPath)>>

validVariableNames ==
    {"$args", "$http2", "$https", "$remote_addr", "$remote_port", "$query_string",
     "$request", "$request_body", "$request_uri", "$request_method", "$scheme"}

validateVariableName(name, fieldPath) ==
    IF ~HasPrefix(name, "$") THEN <<Invalid(fieldPath)>>
    ELSE IF name \notin validVariableNames THEN <<Invalid(fieldPath)>>
    ELSE <<>>

isValidMatchValue(value) == escapedStringsFmtRegexp(value)

validateCondition(condition, fieldPath) ==
    LET fieldCount == (IF condition.Header # "" THEN 1 ELSE 0)
                      + (IF condition.Cookie # "" THEN 1 ELSE 0)
                      + (IF condition.Argument # "" THEN 1 ELSE 0)
                      + (IF condition.Variable # "" THEN 1 ELSE 0)
    IN (IF condition.Header # "" /\ ~IsHTTPHeaderName(condition.Header)
        THEN <<Invalid(Child(fieldPath, "header"))>> ELSE <<>>)
    \o (IF condition.Cookie # "" /\ ~isCookieName(condition.Cookie)
        THEN <<Invalid(Child(fieldPath, "cookie"))>> ELSE <<>>)
    \o (IF condition.Argument # "" /\ ~isArgumentName(condition.Argument)
        THEN <<Invalid(Child(fieldPath, "argument"))>> ELSE <<>>)
    \o (IF condition.Variable # ""
        THEN validateVariableName(condition.Variable, Child(fieldPath, "variable"))
        ELSE <<>>)
    \o (IF fieldCount # 1 THEN <<Invalid(fieldPath)>> ELSE <<>>)
    \o (IF ~isValidMatchValue(condition.Value) THEN <<Invalid(Child(fieldPath, "value"))>>
        ELSE <<>>)

\* validateMatch without the count of the fields the match sets
validateMatchNoCount(match, fieldPath, upstreamNames) ==
    (IF Len(match.Conditions) = 0 THEN <<Required(Child(fieldPath, "conditions"))>>
     ELSE Flatten([i \in 1..Len(match.Conditions) |->
             validateCondition(match.Conditions[i],
                               Index(Child(fieldPath, "conditions"), i - 1))]))
    \o (IF ~IsNil(match.Action)
        THEN validateAction(Deref(match.Action), Child(fieldPath, "action"), upstreamNames)
        ELSE <<>>)
    \o (IF Len(match.Splits) > 0
        THEN validateSplits(match.Splits, Child(fieldPath, "splits"), upstreamNames)
        ELSE <<>>)

validateMatch(match, fieldPath, upstreamNames) ==
    LET fieldCount == (IF ~IsNil(match.Action) THEN 1 ELSE 0)
                      + (IF Len(match.Splits) > 0 THEN 1 ELSE 0)
    IN (IF Len(match.Conditions) = 0 THEN <<Required(Child(fieldPath, "conditions"))>>
        ELSE Flatten([i \in 1..Len(match.Conditions) |->
                validateCondition(match.Conditions[i],
                                  Index(Child(fieldPath, "conditions"), i - 1))]))
    \o (IF ~IsNil(match.Action)
        THEN validateAction(Deref(match.Action), Child(fieldPath, "action"), upstreamNames)
        ELSE <<>>)
    \o (IF Len(match.Splits) > 0
        THEN validateSplits(match.Splits, Child(fieldPath, "splits"), upstreamNames)
        ELSE <<>>)
    \o (IF fieldCount # 1 THEN <<Invalid(fieldPath)>> ELSE <<>>)

validateRouteField(value, fieldPath) ==
    IF ~IsQualifiedName(value) THEN <<Invalid(fieldPath)>> ELSE <<>>

\* validateRoute without the count of the fields the route sets
validateRouteNoCount(route, fieldPath, upstreamNames, isRouteFieldForbidden) ==
    validateRoutePath(route.Path, Child(fieldPath, "path"))
    \o (IF ~IsNil(route.Action)
        THEN validateAction(Deref(route.Action), Child(fieldPath, "action"), upstreamNames)
        ELSE <<>>)
    \o (IF Len(route.Splits) > 0
        THEN validateSplits(route.Splits, Child(fieldPath, "splits"), upstreamNames)
        ELSE <<>>)
    \o Flatten([i \in 1..Len(route.Matches) |->
            validateMatch(route.Matches[i], Index(Child(fieldPath, "matches"), i - 1),
                          upstreamNames)])
    \o (IF route.Route # ""
        THEN (IF isRouteFieldForbidden THEN <<Forbidden(Child(fieldPath, "route"))>>
              ELSE validateRouteField(route.Route, Child(fieldPath, "route")))
        ELSE <<>>)

validateRoute(route, fieldPath, upstreamNames, isRouteFieldForbidden) ==
    LET fieldCount == (IF ~IsNil(route.Action) THEN 1 ELSE 0)
                      + (IF Len(route.Splits) > 0 THEN 1 ELSE 0)
                      + (IF route.Route # "" /\ ~isRouteFieldForbidden THEN 1 ELSE 0)
    IN validateRoutePath(route.Path, Child(fieldPath, "path"))
    \o (IF ~IsNil(route.Action)
        THEN validateAction(Deref(route.Action), Child(fieldPath, "action"), upstreamNames)
        ELSE <<>>)
    \o (IF Len(route.Splits) > 0
        THEN validateSplits(route.Splits, Child(fieldPath, "splits"), upstreamNames)
        ELSE <<>>)
    \o Flatten([i \in 1..Len(route.Matches) |->
            validateMatch(route.Matches[i], Index(Child(fieldPath, "matches"), i - 1),
                          upstreamNames)])
    \o (IF route.Route # ""
        THEN (IF isRouteFieldForbidden THEN <<Forbidden(Child(fieldPath, "route"))>>
              ELSE validateRouteField(route.Route, Child(fieldPath, "route")))
        ELSE <<>>)
    \o (IF fieldCount # 1 THEN <<Invalid(fieldPath)>> ELSE <<>>)

\* The body of validateVirtualServerRoutes' loop for routes[i], given the paths inserted
\* so far: [errs, paths]
validateVirtualServerRoutesStep(r, idxPath, upstreamNames, allPaths) ==
    LET routeErrs == validateRoute(r, idxPath, upstreamNames, FALSE) IN
    [errs |-> IF Len(routeErrs) > 0 THEN routeErrs
              ELSE IF r.Path \in allPaths THEN <<Duplicate(Child(idxPath, "path"))>>
              ELSE <<>>,
     paths |-> IF Len(routeErrs) = 0 /\ r.Path \notin allPaths
               THEN allPaths \cup {r.Path}
               ELSE allPaths]

\* validateVirtualServerRoutes that stops at the first route with an error
RECURSIVE validateVirtualServerRoutesFromFailFast(_, _, _, _, _)
validateVirtualServerRoutesFromFailFast(routes, fieldPath, upstreamNames, i, acc) ==
    IF i > Len(routes) \/ Len(acc.errs) > 0 THEN acc.errs
    ELSE LET one == validateVirtualServerRoutesStep(routes[i], Index(fieldPath, i - 1),
                                                    upstreamNames, acc.paths)
         IN validateVirtualServerRoutesFromFailFast(routes, fieldPath, upstreamNames, i + 1,
                [errs |-> acc.errs \o one.errs, paths |-> one.paths])

RECURSIVE validateVirtualServerRoutesFrom(_, _, _, _, _)
validateVirtualServerRoutesFrom(routes, fieldPath, upstreamNames, i, acc) ==
    IF i > Len(routes) THEN acc.errs
    ELSE LET one == validateVirtualServerRoutesStep(routes[i], Index(fieldPath, i - 1),
                                                    upstreamNames, acc.paths)
         IN validateVirtualServerRoutesFrom(routes, fieldPath, upstreamNames, i + 1,
                [errs |-> acc.errs \o one.errs, paths |-> one.paths])

validateVirtualServerRoutes(routes, fieldPath, upstreamNames) ==
    validateVirtualServerRoutesFrom(routes, fieldPath, upstreamNames, 1,
                                    [errs |-> <<>>, paths |-> {}])

validateVirtualServerSpec(spec, fieldPath, plus) ==
    LET ups == validateUpstreams(spec.Upstreams, Child(fieldPath, "upstreams"), plus) IN
    validateHost(spec.Host, Child(fieldPath, "host"))
    \o validateTLS(spec.TLS, Child(fieldPath, "tls"))
    \o ups.errs
    \o validateVirtualServerRoutes(spec.Routes, Child(fieldPath, "routes"), ups.names)

\* field.ErrorList.ToAggregate: nil for an empty list, otherwise the errors with repeated
\* messages dropped; the model's errors carry the type and the field of the message
RECURSIVE ToAggregate(_)
ToAggregate(list) ==
    IF Len(list) = 0 THEN <<>>
    ELSE LET front == ToAggregate(SubSeq(list, 1, Len(list) - 1))
             last == list[Len(list)]
         IN IF \E k \in 1..Len(front) : front[k] = last THEN front ELSE Append(front, last)

ValidateVirtualServer(vs, plus) ==
    ToAggregate(validateVirtualServerSpec(vs.Spec, "spec", plus))

(***************************************************************************)
(* Validation of VirtualServerRoutes                                       *)
(***************************************************************************)

validateVirtualServerRouteHost(host, virtualServerHost, fieldPath) ==
    validateHost(host, fieldPath)
    \o (IF virtualServerHost # "" /\ host # virtualServerHost THEN <<Invalid(fieldPath)>>
        ELSE <<>>)

isRegexOrExactMatch(path) == HasPrefix(path, "~") \/ HasPrefix(path, "=")

\* The body of validateVirtualServerRouteSubroutes' loop for routes[i]: [errs, paths]
validateVirtualServerRouteSubroutesStep(r, idxPath, upstreamNames, vsPath, allPaths) ==
    LET routeErrs ==
            validateRoute(r, idxPath, upstreamNames, TRUE)
            \o (IF vsPath # "" /\ ~HasPrefix(r.Path, vsPath) /\ ~isRegexOrExactMatch(r.Path)
                THEN <<Invalid(idxPath)>>
                ELSE <<>>)
    IN [errs |-> IF Len(routeErrs) > 0 THEN routeErrs
                 ELSE IF r.Path \in allPaths THEN <<Duplicate(Child(idxPath, "path"))>>
                 ELSE <<>>,
        paths |-> IF Len(routeErrs) = 0 /\ r.Path \notin allPaths
                  THEN allPaths \cup {r.Path}
                  ELSE allPaths]

RECURSIVE validateVirtualServerRouteSubroutesFrom(_, _, _, _, _, _)
validateVirtualServerRouteSubroutesFrom(routes, fieldPath, upstreamNames, vsPath, i, acc) ==
    IF i > Len(routes) THEN acc.errs
    ELSE LET one == validateVirtualServerRouteSubroutesStep(
                        routes[i], Index(fieldPath, i - 1), upstreamNames, vsPath, acc.paths)
         IN validateVirtualServerRouteSubroutesFrom(routes, fieldPath, upstreamNames, vsPath,
                i + 1, [errs |-> acc.errs \o one.errs, paths |-> one.paths])

\* validateVirtualServerRouteSubroutes without the branch for a regex or exact vsPath
validateVirtualServerRouteSubroutesNoExact(routes, fieldPath, upstreamNames, vsPath) ==
    validateVirtualServerRouteSubroutesFrom(routes, fieldPath, upstreamNames, vsPath, 1,
                                            [errs |-> <<>>, paths |-> {}])

validateVirtualServerRouteSubroutes(routes, fieldPath, upstreamNames, vsPath) ==
    IF isRegexOrExactMatch(vsPath)
    THEN (IF Len(routes) # 1 THEN <<Invalid(fieldPath)>>
          ELSE IF routes[1].Path # vsPath THEN <<Invalid(Child(Index(fieldPath, 0), "path"))>>
          ELSE validateRoute(routes[1], Index(fieldPath, 0), upstreamNames, TRUE))
    ELSE validateVirtualServerRouteSubroutesFrom(routes, fieldPath, upstreamNames, vsPath, 1,
                                                 [errs |-> <<>>, paths |-> {}])

validateVirtualServerRouteSpec(spec, fieldPath, virtualServerHost, vsPath, plus) ==
    LET ups == validateUpstreams(spec.Upstreams, Child(fieldPath, "upstreams"), plus) IN
    validateVirtualServerRouteHost(spec.Host, virtualServerHost, Child(fieldPath, "host"))
    \o ups.errs
    \o validateVirtualServerRouteSubroutes(spec.Subroutes, Child(fieldPath, "subroutes"),
                                           ups.names, vsPath)

ValidateVirtualServerRoute(virtualServerRoute, plus) ==
    ToAggregate(validateVirtualServerRouteSpec(virtualServerRoute.Spec, "spec", "", "/", plus))

ValidateVirtualServerRouteForVirtualServer(virtualServerRoute, virtualServerHost, vsPath, plus) ==
    ToAggregate(validateVirtualServerRouteSpec(virtualServerRoute.Spec, "spec",
                                               virtualServerHost, vsPath, plus))

(***************************************************************************)
(* The generator: names                                                    *)
(***************************************************************************)

nginx502Server == "unix:/var/lib/nginx/nginx-502-server.sock"

incompatibleLBMethodsForSlowStart ==
    {"random", "ip_hash", "random two", "random two least_conn",
     "random two least_time=header", "random two least_time=last_byte"}

\* The model's upstreams have no subselector: the key is "%s/%s:%d"
GenerateEndpointsKey(serviceNamespace, serviceName, port) ==
    serviceNamespace \o "/" \o serviceName \o ":" \o FormatInt(port)

GenerateExternalNameSvcKey(namespace, service) == namespace \o "/" \o service

\* an upstreamNamer is its prefix
newUpstreamNamerForVirtualServer(vs) == "vs_" \o vs.Namespace \o "_" \o vs.Name

newUpstreamNamerForVirtualServerRoute(vs, vsr) ==
    "vs_" \o vs.Namespace \o "_" \o vs.Name \o "_vsr_" \o vsr.Namespace \o "_" \o vsr.Name

GetNameForUpstream(namer, upstream) == namer \o "_" \o upstream

\* a variableNamer is its safeNsName
newVariableNamer(vs) == ReplaceAll(vs.Namespace \o "_" \o vs.Name, "-", "_")

GetNameForSplitClientVariable(namer, index) ==
    "$vs_" \o namer \o "_splits_" \o FormatInt(index)

GetNameForVariableForMatchesRouteMap(namer, matchesIndex, matchIndex, conditionIndex) ==
    "$vs_" \o namer \o "_matches_" \o FormatInt(matchesIndex) \o "_match_"
    \o FormatInt(matchIndex) \o "_cond_" \o FormatInt(conditionIndex)

GetNameForVariableForMatchesRouteMainMap(namer, matchesIndex) ==
    "$vs_" \o namer \o "_matches_" \o FormatInt(matchesIndex)

generateStatusMatchName(upstreamName) == upstreamName \o "_match"

(***************************************************************************)
(* The generator: upstreams, health checks, locations                      *)
(***************************************************************************)

generateLBMethod(method, defaultMethod) ==
    IF method = "" THEN defaultMethod
    ELSE IF method = "round_robin" THEN ""
    ELSE method

generateIntFromPointer(n, defaultN) == IF IsNil(n) THEN defaultN ELSE Deref(n)

generateString(str, defaultS) == IF str = "" THEN defaultS ELSE str

generateProxyPassProtocol(enableTLS) == IF enableTLS THEN "https" ELSE "http"

\* upstreamHasKeepalive that takes every explicit keepalive, 0 too, for a keepalive
upstreamHasKeepaliveWhenSet(upstream, cfgParams) ==
    IF ~IsNil(upstream.Keepalive) THEN TRUE ELSE cfgParams.Keepalive # 0

upstreamHasKeepalive(upstream, cfgParams) ==
    IF ~IsNil(upstream.Keepalive) THEN Deref(upstream.Keepalive) # 0
    ELSE cfgParams.Keepalive # 0

\* vsc.warnings[obj] = append(vsc.warnings[obj], msg): the new warnings map
addWarningf(warnings, obj, msg) ==
    [k \in DOMAIN warnings \cup {obj} |->
        IF k = obj
        THEN (IF obj \in DOMAIN warnings THEN Append(warnings[obj], msg) ELSE <<msg>>)
        ELSE warnings[k]]

\* make(map[runtime.Object][]string)
clearWarnings == [k \in {} |-> <<>>]

\* generateEndpointsForUpstream that drops the endpoints of an ExternalName service without
\* a resolver and records no warning
generateEndpointsForUpstreamNoWarning(c, warnings, owner, namespace, upstream, vsEx) ==
    LET endpointsKey == GenerateEndpointsKey(namespace, upstream.Service, upstream.Port)
        externalNameSvcKey == GenerateExternalNameSvcKey(namespace, upstream.Service)
        endpoints == IF endpointsKey \in DOMAIN vsEx.Endpoints
                     THEN vsEx.Endpoints[endpointsKey] ELSE <<>>
    IN IF ~c.isPlus /\ Len(endpoints) = 0
       THEN [endpoints |-> <<nginx502Server>>, warnings |-> warnings]
       ELSE IF externalNameSvcKey \in vsEx.ExternalNameSvcs /\ ~c.isResolverConfigured
       THEN [endpoints |-> <<>>, warnings |-> warnings]
       ELSE [endpoints |-> endpoints, warnings |-> warnings]

\* generateEndpointsForUpstream without the server that answers 502
generateEndpointsForUpstreamNoSentinel(c, warnings, owner, namespace, upstream, vsEx) ==
    LET endpointsKey == GenerateEndpointsKey(namespace, upstream.Service, upstream.Port)
        externalNameSvcKey == GenerateExternalNameSvcKey(namespace, upstream.Service)
        endpoints == IF endpointsKey \in DOMAIN vsEx.Endpoints
                     THEN vsEx.Endpoints[endpointsKey] ELSE <<>>
    IN IF externalNameSvcKey \in vsEx.ExternalNameSvcs /\ ~c.isResolverConfigured
       THEN [endpoints |-> <<>>,
             warnings |-> addWarningf(warnings, owner,
                 "Type ExternalName service " \o upstream.Service \o " in upstream "
                 \o upstream.Name \o " will be ignored. To use ExternaName services, a "
                 \o "resolver must be configured in the ConfigMap")]
       ELSE [endpoints |-> endpoints, warnings |-> warnings]

\* [endpoints, warnings]: the endpoints returned and vsc.warnings afterwards
generateEndpointsForUpstream(c, warnings, owner, namespace, upstream, vsEx) ==
    LET endpointsKey == GenerateEndpointsKey(namespace, upstream.Service, upstream.Port)
        externalNameSvcKey == GenerateExternalNameSvcKey(namespace, upstream.Service)
        endpoints == IF endpointsKey \in DOMAIN vsEx.Endpoints
                     THEN vsEx.Endpoints[endpointsKey] ELSE <<>>
    IN IF ~c.isPlus /\ Len(endpoints) = 0
       THEN [endpoints |-> <<nginx502Server>>, warnings |-> warnings]
       ELSE IF externalNameSvcKey \in vsEx.ExternalNameSvcs /\ ~c.isResolverConfigured
       THEN [endpoints |-> <<>>,
             warnings |-> addWarningf(warnings, owner,
                 "Type ExternalName service " \o upstream.Service \o " in upstream "
                 \o upstream.Name \o " will be ignored. To use ExternaName services, a "
                 \o "resolver must be configured in the ConfigMap")]
       ELSE [endpoints |-> endpoints, warnings |-> warnings]

\* generateSlowStartForPlus that does not look for the hash methods
generateSlowStartForPlusNoHash(warnings, owner, upstream, lbMethod) ==
    IF upstream.SlowStart = "" THEN [slowStart |-> "", warnings |-> warnings]
    ELSE IF lbMethod \in incompatibleLBMethodsForSlowStart
    THEN [slowStart |-> "",
          warnings |-> addWarningf(warnings, owner,
              "Slow start will be disabled for upstream " \o upstream.Name
              \o " because lb method '" \o lbMethod \o "' is incompatible with slow start")]
    ELSE [slowStart |-> upstream.SlowStart, warnings |-> warnings]

\* [slowStart, warnings]
generateSlowStartForPlus(warnings, owner, upstream, lbMethod) ==
    IF upstream.SlowStart = "" THEN [slowStart |-> "", warnings |-> warnings]
    ELSE IF lbMethod \in incompatibleLBMethodsForSlowStart \/ HasPrefix(lbMethod, "hash")
    THEN [slowStart |-> "",
          warnings |-> addWarningf(warnings, owner,
              "Slow start will be disabled for upstream " \o upstream.Name
              \o " because lb method '" \o lbMethod \o "' is incompatible with slow start")]
    ELSE [slowStart |-> upstream.SlowStart, warnings |-> warnings]

generateQueueForPlus(upstreamQueue, defaultTimeout) ==
    IF IsNil(upstreamQueue) THEN Nil
    ELSE Ptr([Size |-> Deref(upstreamQueue).Size,
              Timeout |-> generateString(Deref(upstreamQueue).Timeout, defaultTimeout)])

generateSessionCookie(sc) ==
    IF IsNil(sc) \/ ~Deref(sc).Enable THEN Nil
    ELSE Ptr([Enable |-> TRUE, Name |-> Deref(sc).Name, Path |-> Deref(sc).Path,
              Expires |-> Deref(sc).Expires, Domain |-> Deref(sc).Domain])

\* [ups, warnings]: the version2.Upstream and vsc.warnings afterwards
generateUpstream(c, warnings, owner, upstreamName, upstream, isExternalNameSvc, endpoints) ==
    LET lbMethod == generateLBMethod(upstream.LBMethod, c.cfgParams.LBMethod)
        slow == generateSlowStartForPlus(warnings, owner, upstream, lbMethod)
    IN [ups |->
           [Name |-> upstreamName,
            Servers |-> [i \in 1..Len(endpoints) |-> [Address |-> endpoints[i]]],
            Resolve |-> isExternalNameSvc,
            LBMethod |-> lbMethod,
            Keepalive |-> generateIntFromPointer(upstream.Keepalive, c.cfgParams.Keepalive),
            SlowStart |-> IF c.isPlus THEN slow.slowStart ELSE "",
            Queue |-> IF c.isPlus THEN generateQueueForPlus(upstream.Queue, "60s") ELSE Nil,
            SessionCookie |-> IF c.isPlus THEN generateSessionCookie(upstream.SessionCookie)
                              ELSE Nil],
        warnings |-> IF c.isPlus THEN slow.warnings ELSE warnings]

\* newHealthCheckWithDefaults that leaves the port of the upstream out
newHealthCheckWithoutPort(upstream, upstreamName, cfgParams) ==
    [Name |-> upstreamName,
     URI |-> "/",
     Fails |-> 1,
     Passes |-> 1,
     Port |-> 0,
     ProxyPass |-> generateProxyPassProtocol(upstream.TLS.Enable) \o "://" \o upstreamName,
     Match |-> ""]

newHealthCheckWithDefaults(upstream, upstreamName, cfgParams) ==
    [Name |-> upstreamName,
     URI |-> "/",
     Fails |-> 1,
     Passes |-> 1,
     Port |-> upstream.Port,
     ProxyPass |-> generateProxyPassProtocol(upstream.TLS.Enable) \o "://" \o upstreamName,
     Match |-> ""]

\* generateHealthCheck that does not read the Enable field of the block
generateHealthCheckOfDisabled(upstream, upstreamName, cfgParams) ==
    IF IsNil(upstream.HealthCheck) THEN Nil
    ELSE LET hc == newHealthCheckWithDefaults(upstream, upstreamName, cfgParams)
             in == Deref(upstream.HealthCheck)
         IN Ptr([hc EXCEPT
                   !.URI = IF in.Path # "" THEN in.Path ELSE @,
                   !.Fails = IF in.Fails > 0 THEN in.Fails ELSE @,
                   !.Passes = IF in.Passes > 0 THEN in.Passes ELSE @,
                   !.Port = IF in.Port > 0 THEN in.Port ELSE @,
                   !.Match = IF in.StatusMatch # "" THEN generateStatusMatchName(upstreamName)
                             ELSE @])

\* nil, or a pointer to the version2.HealthCheck
generateHealthCheck(upstream, upstreamName, cfgParams) ==
    IF IsNil(upstream.HealthCheck) \/ ~Deref(upstream.HealthCheck).Enable THEN Nil
    ELSE LET hc == newHealthCheckWithDefaults(upstream, upstreamName, cfgParams)
             in == Deref(upstream.HealthCheck)
         IN Ptr([hc EXCEPT
                   !.URI = IF in.Path # "" THEN in.Path ELSE @,
                   !.Fails = IF in.Fails > 0 THEN in.Fails ELSE @,
                   !.Passes = IF in.Passes > 0 THEN in.Passes ELSE @,
                   !.Port = IF in.Port > 0 THEN in.Port ELSE @,
                   !.Match = IF in.StatusMatch # "" THEN generateStatusMatchName(upstreamName)
                             ELSE @])

generateUpstreamStatusMatch(upstreamName, status) ==
    [Name |-> generateStatusMatchName(upstreamName), Code |-> status]

generatePath(path) ==
    IF HasPrefix(path, "~*")
    THEN "~* \"" \o TrimPrefix(TrimPrefix(path, "~*"), " ") \o "\""
    ELSE IF HasPrefix(path, "~")
    THEN "~ \"" \o TrimPrefix(TrimPrefix(path, "~"), " ") \o "\""
    ELSE path

generateReturnBlock(text, code, defaultCode) ==
    [Code |-> IF code # 0 THEN code ELSE defaultCode, Text |-> text]

\* The model's version2.Location holds Path, ProxyPass, HasKeepalive, DefaultType and Return
generateLocationForReturnBlock(path, r, defaultType) ==
    [Path |-> path, ProxyPass |-> "", HasKeepalive |-> FALSE,
     DefaultType |-> defaultType, Return |-> Ptr(r)]

generateLocationForProxying(path, upstreamName, upstream, cfgParams) ==
    [Path |-> generatePath(path),
     ProxyPass |-> generateProxyPassProtocol(upstream.TLS.Enable) \o "://" \o upstreamName,
     HasKeepalive |-> upstreamHasKeepalive(upstream, cfgParams),
     DefaultType |-> "",
     Return |-> Nil]

\* action is the Action itself: the callers dereference the pointer
generateLocation(path, upstreamName, upstream, action, cfgParams) ==
    IF ~IsNil(action.Redirect)
    THEN generateLocationForReturnBlock(path,
             generateReturnBlock(Deref(action.Redirect).URL, Deref(action.Redirect).Code, 301),
             "")
    ELSE IF ~IsNil(action.Return)
    THEN generateLocationForReturnBlock(path,
             generateReturnBlock(Deref(action.Return).Body, Deref(action.Return).Code, 200),
             IF Deref(action.Return).Type = "" THEN "text/plain"
             ELSE Deref(action.Return).Type)
    ELSE generateLocationForProxying(path, upstreamName, upstream, cfgParams)

(***************************************************************************)
(* The generator: splits and matches                                       *)
(***************************************************************************)

\* the zero conf_v1.Upstream, which a Go map yields for a missing key
zeroUpstream ==
    [Name |-> "", Service |-> "", Port |-> 0, LBMethod |-> "", Keepalive |-> Nil,
     TLS |-> [Enable |-> FALSE], HealthCheck |-> Nil, SlowStart |-> "", Queue |-> Nil,
     SessionCookie |-> Nil]

\* crUpstreams[upstreamName]
lookupUpstream(crUpstreams, upstreamName) ==
    IF upstreamName \in DOMAIN crUpstreams THEN crUpstreams[upstreamName] ELSE zeroUpstream

\* generateSplits that numbers the distributions of every split client as those of the first
generateSplitsOfFirst(splits, upstreamNamer, crUpstreams, variableNamer, scIndex, cfgParams) ==
    [SplitClient |->
        [Source |-> "$request_id",
         Variable |-> GetNameForSplitClientVariable(variableNamer, scIndex),
         Distributions |->
            [i \in 1..Len(splits) |->
                [Weight |-> FormatInt(splits[i].Weight) \o "%",
                 Value |-> "@splits_0_split_" \o FormatInt(i - 1)]]],
     Locations |->
        [i \in 1..Len(splits) |->
            LET path == "@splits_" \o FormatInt(scIndex) \o "_split_" \o FormatInt(i - 1)
                upstreamName == GetNameForUpstream(upstreamNamer, Deref(splits[i].Action).Pass)
            IN generateLocation(path, upstreamName, lookupUpstream(crUpstreams, upstreamName),
                                Deref(splits[i].Action), cfgParams)]]

\* [SplitClient, Locations]
generateSplits(splits, upstreamNamer, crUpstreams, variableNamer, scIndex, cfgParams) ==
    [SplitClient |->
        [Source |-> "$request_id",
         Variable |-> GetNameForSplitClientVariable(variableNamer, scIndex),
         Distributions |->
            [i \in 1..Len(splits) |->
                [Weight |-> FormatInt(splits[i].Weight) \o "%",
                 Value |-> "@splits_" \o FormatInt(scIndex) \o "_split_" \o FormatInt(i - 1)]]],
     Locations |->
        [i \in 1..Len(splits) |->
            LET path == "@splits_" \o FormatInt(scIndex) \o "_split_" \o FormatInt(i - 1)
                upstreamName == GetNameForUpstream(upstreamNamer, Deref(splits[i].Action).Pass)
            IN generateLocation(path, upstreamName, lookupUpstream(crUpstreams, upstreamName),
                                Deref(splits[i].Action), cfgParams)]]

\* generateDefaultSplitsConfig whose internal redirect names the split client after its own
generateDefaultSplitsConfigNextVariable(route, upstreamNamer, crUpstreams, variableNamer, scIndex, cfgParams) ==
    LET sl == generateSplits(route.Splits, upstreamNamer, crUpstreams, variableNamer,
                             scIndex, cfgParams)
    IN [Maps |-> <<>>,
        SplitClients |-> <<sl.SplitClient>>,
        Locations |-> sl.Locations,
        InternalRedirectLocation |->
            [Path |-> route.Path,
             Destination |-> GetNameForSplitClientVariable(variableNamer, scIndex + 1)]]

\* a routingCfg: [Maps, SplitClients, Locations, InternalRedirectLocation]
generateDefaultSplitsConfig(route, upstreamNamer, crUpstreams, variableNamer, scIndex, cfgParams) ==
    LET sl == generateSplits(route.Splits, upstreamNamer, crUpstreams, variableNamer,
                             scIndex, cfgParams)
    IN [Maps |-> <<>>,
        SplitClients |-> <<sl.SplitClient>>,
        Locations |-> sl.Locations,
        InternalRedirectLocation |->
            [Path |-> route.Path,
             Destination |-> GetNameForSplitClientVariable(variableNamer, scIndex)]]

specialMapParameters == {"default", "hostnames", "include", "volatile"}

\* generateValueForMatchesRouteMap that quotes every value as it is
generateValueForMatchesRouteMapQuoted(matchedValue) ==
    [value |-> "\"" \o matchedValue \o "\"", isNegative |-> FALSE]

\* [value, isNegative]
generateValueForMatchesRouteMap(matchedValue) ==
    IF Len(matchedValue) = 0 THEN [value |-> "\"\"", isNegative |-> FALSE]
    ELSE LET isNegative == Char(matchedValue, 1) = "!"
             rest == IF isNegative THEN Tail(matchedValue) ELSE matchedValue
         IN IF rest \in specialMapParameters
            THEN [value |-> "\\" \o rest, isNegative |-> isNegative]
            ELSE [value |-> "\"" \o rest \o "\"", isNegative |-> isNegative]

\* generateParametersForMatchesRouteMap that does not swap the results of a negated value
generateParametersForMatchesRouteMapNoSwap(matchedValue, successfulResult) ==
    << [Value |-> generateValueForMatchesRouteMap(matchedValue).value,
        Result |-> successfulResult],
       [Value |-> "default", Result |-> "0"] >>

generateParametersForMatchesRouteMap(matchedValue, successfulResult) ==
    LET v == generateValueForMatchesRouteMap(matchedValue) IN
    << [Value |-> v.value, Result |-> IF v.isNegative THEN "0" ELSE successfulResult],
       [Value |-> "default", Result |-> IF v.isNegative THEN successfulResult ELSE "0"] >>

getNameForSourceForMatchesRouteMapFromCondition(condition) ==
    IF condition.Header # "" THEN "$http_" \o ReplaceAll(condition.Header, "-", "_")
    ELSE IF condition.Cookie # "" THEN "$cookie_" \o condition.Cookie
    ELSE IF condition.Argument # "" THEN "$arg_" \o condition.Argument
    ELSE condition.Variable

\* scLocalIndex when the loops of generateMatchesConfig reach matches[i]: the matches
\* before it that have splits
\* scLocalIndex never advanced
scLocalIndexNotAdvanced(matches, i) == 0

scLocalIndexAt(matches, i) == Cardinality({k \in 1..(i - 1) : Len(matches[k].Splits) > 0})

\* the source assigned, not appended to: the last match's variable alone
mainMapSourceOverwritten(matches, variableNamer, index, i) ==
    IF Len(matches) = 0 THEN ""
    ELSE GetNameForVariableForMatchesRouteMap(variableNamer, index, Len(matches) - 1, 0)

RECURSIVE mainMapSource(_, _, _, _)
mainMapSource(matches, variableNamer, index, i) ==
    IF i > Len(matches) THEN ""
    ELSE GetNameForVariableForMatchesRouteMap(variableNamer, index, i - 1, 0)
         \o mainMapSource(matches, variableNamer, index, i + 1)

generateMatchesConfig(route, upstreamNamer, crUpstreams, variableNamer, index, scIndex, cfgParams) ==
    LET matches == route.Matches
        condMaps ==
            Flatten([i \in 1..Len(matches) |->
                [j \in 1..Len(matches[i].Conditions) |->
                    [Source |-> getNameForSourceForMatchesRouteMapFromCondition(
                                    matches[i].Conditions[j]),
                     Variable |-> GetNameForVariableForMatchesRouteMap(
                                      variableNamer, index, i - 1, j - 1),
                     Parameters |-> generateParametersForMatchesRouteMap(
                         matches[i].Conditions[j].Value,
                         IF j - 1 < Len(matches[i].Conditions) - 1
                         THEN GetNameForVariableForMatchesRouteMap(variableNamer, index,
                                                                   i - 1, j)
                         ELSE "1")]]])
        params ==
            [i \in 1..Len(matches) |->
                [Value |-> "~^" \o Repeat("0", i - 1) \o "1",
                 Result |-> IF Len(matches[i].Splits) > 0
                            THEN GetNameForSplitClientVariable(
                                     variableNamer, scIndex + scLocalIndexAt(matches, i))
                            ELSE "@matches_" \o FormatInt(index) \o "_match_"
                                 \o FormatInt(i - 1)]]
        defaultResult ==
            IF Len(route.Splits) > 0
            THEN GetNameForSplitClientVariable(
                     variableNamer, scIndex + scLocalIndexAt(matches, Len(matches) + 1))
            ELSE "@matches_" \o FormatInt(index) \o "_default"
        variable == GetNameForVariableForMatchesRouteMainMap(variableNamer, index)
        mainMap == [Source |-> mainMapSource(matches, variableNamer, index, 1),
                    Variable |-> variable,
                    Parameters |-> Append(params, [Value |-> "default",
                                                   Result |-> defaultResult])]
        perMatch ==
            [i \in 1..Len(matches) |->
                IF Len(matches[i].Splits) > 0
                THEN LET sl == generateSplits(matches[i].Splits, upstreamNamer, crUpstreams,
                                              variableNamer,
                                              scIndex + scLocalIndexAt(matches, i), cfgParams)
                     IN [scs |-> <<sl.SplitClient>>, locs |-> sl.Locations]
                ELSE LET path == "@matches_" \o FormatInt(index) \o "_match_"
                                 \o FormatInt(i - 1)
                         upstreamName == GetNameForUpstream(upstreamNamer,
                                                            Deref(matches[i].Action).Pass)
                     IN [scs |-> <<>>,
                         locs |-> <<generateLocation(path, upstreamName,
                                        lookupUpstream(crUpstreams, upstreamName),
                                        Deref(matches[i].Action), cfgParams)>>]]
        dflt ==
            IF Len(route.Splits) > 0
            THEN LET sl == generateSplits(route.Splits, upstreamNamer, crUpstreams,
                                          variableNamer,
                                          scIndex + scLocalIndexAt(matches, Len(matches) + 1),
                                          cfgParams)
                 IN [scs |-> <<sl.SplitClient>>, locs |-> sl.Locations]
            ELSE LET path == "@matches_" \o FormatInt(index) \o "_default"
                     upstreamName == GetNameForUpstream(upstreamNamer,
                                                        Deref(route.Action).Pass)
                 IN [scs |-> <<>>,
                     locs |-> <<generateLocation(path, upstreamName,
                                    lookupUpstream(crUpstreams, upstreamName),
                                    Deref(route.Action), cfgParams)>>]
    IN [Maps |-> Append(condMaps, mainMap),
        SplitClients |-> Flatten([i \in 1..Len(matches) |-> perMatch[i].scs]) \o dflt.scs,
        Locations |-> Flatten([i \in 1..Len(matches) |-> perMatch[i].locs]) \o dflt.locs,
        InternalRedirectLocation |-> [Path |-> route.Path, Destination |-> variable]]

(***************************************************************************)
(* The generator: GenerateVirtualServerConfig                              *)
(***************************************************************************)

\* The state of the upstream loops of GenerateVirtualServerConfig after one more upstream u
\* of the resource owner (its key in the warnings map): upstreams, crUpstreams,
\* healthChecks, statusMatches and vsc.warnings
generateUpstreamsStep(c, acc, owner, upstreamNamer, upstreamNamespace, u, vsEx) ==
    LET upstreamName == GetNameForUpstream(upstreamNamer, u.Name)
        eps == generateEndpointsForUpstream(c, acc.warnings, owner, upstreamNamespace, u, vsEx)
        isExternalNameSvc ==
            GenerateExternalNameSvcKey(upstreamNamespace, u.Service) \in vsEx.ExternalNameSvcs
        gen == generateUpstream(c, eps.warnings, owner, upstreamName, u, isExternalNameSvc,
                                eps.endpoints)
        hc == generateHealthCheck(u, upstreamName, c.cfgParams)
    IN [upstreams |-> Append(acc.upstreams, gen.ups),
        crUpstreams |-> [n \in DOMAIN acc.crUpstreams \cup {upstreamName} |->
                            IF n = upstreamName THEN u ELSE acc.crUpstreams[n]],
        healthChecks |-> acc.healthChecks \o hc,
        statusMatches |->
            IF ~IsNil(hc) /\ Deref(u.HealthCheck).StatusMatch # ""
            THEN Append(acc.statusMatches,
                        generateUpstreamStatusMatch(upstreamName,
                                                    Deref(u.HealthCheck).StatusMatch))
            ELSE acc.statusMatches,
        warnings |-> gen.warnings]

RECURSIVE generateUpstreamsFrom(_, _, _, _, _, _, _, _)
generateUpstreamsFrom(c, acc, owner, upstreamNamer, upstreamNamespace, upstreams, i, vsEx) ==
    IF i > Len(upstreams) THEN acc
    ELSE generateUpstreamsFrom(c,
             generateUpstreamsStep(c, acc, owner, upstreamNamer, upstreamNamespace,
                                   upstreams[i], vsEx),
             owner, upstreamNamer, upstreamNamespace, upstreams, i + 1, vsEx)

\* the key of a resource in the warnings map (the object's identity)
ownerOfVS(vs) == "VirtualServer " \o vs.Namespace \o "/" \o vs.Name
ownerOfVSR(vsr) == "VirtualServerRoute " \o vsr.Namespace \o "/" \o vsr.Name

\* the loop over the VirtualServerRoutes with the VirtualServer as the owner of their upstreams
RECURSIVE generateVSRUpstreamsFromOwnedByVS(_, _, _, _)
generateVSRUpstreamsFromOwnedByVS(c, acc, vsEx, k) ==
    IF k > Len(vsEx.VirtualServerRoutes) THEN acc
    ELSE LET vsr == vsEx.VirtualServerRoutes[k] IN
         generateVSRUpstreamsFromOwnedByVS(c,
             generateUpstreamsFrom(c, acc, ownerOfVS(vsEx.VirtualServer),
                 newUpstreamNamerForVirtualServerRoute(vsEx.VirtualServer, vsr),
                 vsr.Namespace, vsr.Spec.Upstreams, 1, vsEx),
             vsEx, k + 1)

RECURSIVE generateVSRUpstreamsFrom(_, _, _, _)
generateVSRUpstreamsFrom(c, acc, vsEx, k) ==
    IF k > Len(vsEx.VirtualServerRoutes) THEN acc
    ELSE LET vsr == vsEx.VirtualServerRoutes[k] IN
         generateVSRUpstreamsFrom(c,
             generateUpstreamsFrom(c, acc, ownerOfVSR(vsr),
                 newUpstreamNamerForVirtualServerRoute(vsEx.VirtualServer, vsr),
                 vsr.Namespace, vsr.Spec.Upstreams, 1, vsEx),
             vsEx, k + 1)

\* the route loops without matchesRoutes++ after a route with matches
generateRoutesStepSameMatchIndex(acc, r, upstreamNamer, crUpstreams, variableNamer, cfgParams, skipRouteField) ==
    IF skipRouteField /\ r.Route # "" THEN acc
    ELSE IF Len(r.Matches) > 0
    THEN LET cfg == generateMatchesConfig(r, upstreamNamer, crUpstreams, variableNamer,
                                          acc.matchesRoutes, Len(acc.splitClients), cfgParams)
         IN [maps |-> acc.maps \o cfg.Maps,
             locations |-> acc.locations \o cfg.Locations,
             internalRedirectLocations |->
                 Append(acc.internalRedirectLocations, cfg.InternalRedirectLocation),
             splitClients |-> acc.splitClients \o cfg.SplitClients,
             matchesRoutes |-> acc.matchesRoutes]
    ELSE IF Len(r.Splits) > 0
    THEN LET cfg == generateDefaultSplitsConfig(r, upstreamNamer, crUpstreams, variableNamer,
                                                Len(acc.splitClients), cfgParams)
         IN [acc EXCEPT
                !.splitClients = @ \o cfg.SplitClients,
                !.locations = @ \o cfg.Locations,
                !.internalRedirectLocations = Append(@, cfg.InternalRedirectLocation)]
    ELSE LET upstreamName == GetNameForUpstream(upstreamNamer, Deref(r.Action).Pass)
         IN [acc EXCEPT
                !.locations = Append(@, generateLocation(r.Path, upstreamName,
                                  lookupUpstream(crUpstreams, upstreamName),
                                  Deref(r.Action), cfgParams))]

\* The state of the route loops of GenerateVirtualServerConfig after one more route r:
\* locations, internalRedirectLocations, splitClients, maps and matchesRoutes.
\* skipRouteField is true in the loop over the VirtualServer's routes.
generateRoutesStep(acc, r, upstreamNamer, crUpstreams, variableNamer, cfgParams, skipRouteField) ==
    IF skipRouteField /\ r.Route # "" THEN acc
    ELSE IF Len(r.Matches) > 0
    THEN LET cfg == generateMatchesConfig(r, upstreamNamer, crUpstreams, variableNamer,
                                          acc.matchesRoutes, Len(acc.splitClients), cfgParams)
         IN [maps |-> acc.maps \o cfg.Maps,
             locations |-> acc.locations \o cfg.Locations,
             internalRedirectLocations |->
                 Append(acc.internalRedirectLocations, cfg.InternalRedirectLocation),
             splitClients |-> acc.splitClients \o cfg.SplitClients,
             matchesRoutes |-> acc.matchesRoutes + 1]
    ELSE IF Len(r.Splits) > 0
    THEN LET cfg == generateDefaultSplitsConfig(r, upstreamNamer, crUpstreams, variableNamer,
                                                Len(acc.splitClients), cfgParams)
         IN [acc EXCEPT
                !.splitClients = @ \o cfg.SplitClients,
                !.locations = @ \o cfg.Locations,
                !.internalRedirectLocations = Append(@, cfg.InternalRedirectLocation)]
    ELSE LET upstreamName == GetNameForUpstream(upstreamNamer, Deref(r.Action).Pass)
         IN [acc EXCEPT
                !.locations = Append(@, generateLocation(r.Path, upstreamName,
                                  lookupUpstream(crUpstreams, upstreamName),
                                  Deref(r.Action), cfgParams))]

RECURSIVE generateRoutesFrom(_, _, _, _, _, _, _, _)
generateRoutesFrom(acc, routes, i, upstreamNamer, crUpstreams, variableNamer, cfgParams, skipRouteField) ==
    IF i > Len(routes) THEN acc
    ELSE generateRoutesFrom(
             generateRoutesStep(acc, routes[i], upstreamNamer, crUpstreams, variableNamer,
                                cfgParams, skipRouteField),
             routes, i + 1, upstreamNamer, crUpstreams, variableNamer, cfgParams,
             skipRouteField)

RECURSIVE generateVSRRoutesFrom(_, _, _, _, _, _)
generateVSRRoutesFrom(acc, vsEx, k, crUpstreams, variableNamer, cfgParams) ==
    IF k > Len(vsEx.VirtualServerRoutes) THEN acc
    ELSE LET vsr == vsEx.VirtualServerRoutes[k] IN
         generateVSRRoutesFrom(
             generateRoutesFrom(acc, vsr.Spec.Subroutes, 1,
                 newUpstreamNamerForVirtualServerRoute(vsEx.VirtualServer, vsr),
                 crUpstreams, variableNamer, cfgParams, FALSE),
             vsEx, k + 1, crUpstreams, variableNamer, cfgParams)

\* The generator reads x.Action.Pass without a nil check: a split's action in
\* generateSplits, a match's action and the route's action in generateMatchesConfig, the
\* route's action in the plain branch of GenerateVirtualServerConfig.  TRUE when lowering
\* the route dereferences a nil Action, which panics.
splitsDerefNil(splits) == \E i \in 1..Len(splits) : IsNil(splits[i].Action)

routeDerefsNil(r) ==
    IF Len(r.Matches) > 0
    THEN \/ \E i \in 1..Len(r.Matches) :
                IF Len(r.Matches[i].Splits) > 0 THEN splitsDerefNil(r.Matches[i].Splits)
                ELSE IsNil(r.Matches[i].Action)
         \/ (IF Len(r.Splits) > 0 THEN splitsDerefNil(r.Splits) ELSE IsNil(r.Action))
    ELSE IF Len(r.Splits) > 0 THEN splitsDerefNil(r.Splits)
    ELSE IsNil(r.Action)

generatePanics(vsEx) ==
    \/ \E i \in 1..Len(vsEx.VirtualServer.Spec.Routes) :
          /\ vsEx.VirtualServer.Spec.Routes[i].Route = ""
          /\ routeDerefsNil(vsEx.VirtualServer.Spec.Routes[i])
    \/ \E k \in 1..Len(vsEx.VirtualServerRoutes) :
          \E i \in 1..Len(vsEx.VirtualServerRoutes[k].Spec.Subroutes) :
              routeDerefsNil(vsEx.VirtualServerRoutes[k].Spec.Subroutes[i])

\* [cfg, warnings]: the VirtualServerConfig and the Warnings returned (the model's Server
\* holds ServerName, InternalRedirectLocations, Locations and HealthChecks)
GenerateVirtualServerConfig(c, vsEx) ==
    LET vs == vsEx.VirtualServer
        virtualServerUpstreamNamer == newUpstreamNamerForVirtualServer(vs)
        ups0 == [upstreams |-> <<>>, crUpstreams |-> [n \in {} |-> zeroUpstream],
                 healthChecks |-> <<>>, statusMatches |-> <<>>, warnings |-> clearWarnings]
        ups1 == generateUpstreamsFrom(c, ups0, ownerOfVS(vs), virtualServerUpstreamNamer,
                                      vs.Namespace, vs.Spec.Upstreams, 1, vsEx)
        ups == generateVSRUpstreamsFrom(c, ups1, vsEx, 1)
        variableNamer == newVariableNamer(vs)
        rts0 == [maps |-> <<>>, locations |-> <<>>, internalRedirectLocations |-> <<>>,
                 splitClients |-> <<>>, matchesRoutes |-> 0]
        rts1 == generateRoutesFrom(rts0, vs.Spec.Routes, 1, virtualServerUpstreamNamer,
                                   ups.crUpstreams, variableNamer, c.cfgParams, TRUE)
        rts == generateVSRRoutesFrom(rts1, vsEx, 1, ups.crUpstreams, variableNamer,
                                     c.cfgParams)
    IN [cfg |->
           [Upstreams |-> ups.upstreams,
            SplitClients |-> rts.splitClients,
            Maps |-> rts.maps,
            StatusMatches |-> ups.statusMatches,
            Server |-> [ServerName |-> vs.Spec.Host,
                        InternalRedirectLocations |-> rts.internalRedirectLocations,
                        Locations |-> rts.locations,
                        HealthChecks |-> ups.healthChecks]],
        warnings |-> ups.warnings]

(***************************************************************************)
(* The resources the operations are called with                            *)
(***************************************************************************)

MaxRoutes == 2
MaxVirtualServerRoutes == 1

upstreamFor(name) ==
    [zeroUpstream EXCEPT !.Name = name, !.Service = name \o "-svc", !.Port = 80]

actionPass(upstream) == Ptr([Pass |-> upstream, Redirect |-> Nil, Return |-> Nil])

actionRedirect ==
    Ptr([Pass |-> "", Redirect |-> Ptr([URL |-> "http://www.nginx.com", Code |-> 301]),
         Return |-> Nil])

actionReturn ==
    Ptr([Pass |-> "", Redirect |-> Nil,
         Return |-> Ptr([Code |-> 200, Type |-> "text/plain", Body |-> "ok"])])

\* &Action{}: an action that sets none of pass, redirect, return
actionEmpty == Ptr([Pass |-> "", Redirect |-> Nil, Return |-> Nil])

\* an action that sets pass and redirect, with a redirect url that is invalid too
actionPassAndRedirect ==
    Ptr([Pass |-> "tea", Redirect |-> Ptr([URL |-> "", Code |-> 301]), Return |-> Nil])

split(weight, action) == [Weight |-> weight, Action |-> action]

condition(header, variable, value) ==
    [Header |-> header, Cookie |-> "", Argument |-> "", Variable |-> variable,
     Value |-> value]

match(conditions, action, splits) ==
    [Conditions |-> conditions, Action |-> action, Splits |-> splits]

route(action, splits, routeRef, matches) ==
    [Path |-> "", Route |-> routeRef, Action |-> action, Splits |-> splits,
     Matches |-> matches]

splitsEven == <<split(50, actionPass("tea")), split(50, actionPass("coffee"))>>
splitsThree ==
    <<split(30, actionPass("tea")), split(30, actionPass("coffee")), split(40, actionReturn)>>

matchOnHeader(action, splits) ==
    match(<<condition("x-version", "", "v2")>>, action, splits)

\* The shapes of a route: what it sets among action, splits, route and matches
RouteShapes ==
    { route(actionPass("tea"), <<>>, "", <<>>),
      route(actionPass("missing"), <<>>, "", <<>>),
      route(actionRedirect, <<>>, "", <<>>),
      route(actionReturn, <<>>, "", <<>>),
      route(actionEmpty, <<>>, "", <<>>),
      route(actionPassAndRedirect, <<>>, "", <<>>),
      route(Nil, <<>>, "", <<>>),
      route(Nil, splitsEven, "", <<>>),
      route(Nil, splitsThree, "", <<>>),
      route(Nil, <<split(90, actionPass("tea")), split(10, actionPass("missing"))>>, "", <<>>),
      route(Nil, <<split(100, actionPass("tea"))>>, "", <<>>),
      route(Nil, <<split(50, actionPass("tea")), split(50, Nil)>>, "", <<>>),
      route(Nil, <<split(60, actionPass("tea")), split(50, actionPass("coffee"))>>, "", <<>>),
      route(Nil, <<split(0, actionPass("tea")), split(100, actionPass("coffee"))>>, "", <<>>),
      route(actionPass("tea"), splitsEven, "", <<>>),
      route(Nil, <<>>, "default/coffee", <<>>),
      route(actionPass("tea"), <<>>, "default/coffee", <<>>),
      route(actionPass("tea"), <<>>, "", <<matchOnHeader(actionPass("coffee"), <<>>)>>),
      route(Nil, splitsThree, "", <<matchOnHeader(Nil, splitsEven)>>),
      route(actionPass("tea"), <<>>, "", <<matchOnHeader(actionPass("missing"), <<>>)>>),
      route(actionPass("tea"), <<>>, "", <<matchOnHeader(Nil, <<>>)>>),
      route(actionPass("tea"), <<>>, "", <<matchOnHeader(actionPass("coffee"), splitsEven)>>),
      route(Nil, <<>>, "", <<matchOnHeader(actionPass("coffee"), <<>>)>>),
      route(Nil, <<>>, "default/coffee", <<matchOnHeader(actionPass("coffee"), <<>>)>>) }

\* The shapes of the routes after the first
LaterRouteShapes ==
    { route(actionPass("coffee"), <<>>, "", <<>>),
      route(actionPass("missing"), <<>>, "", <<>>),
      route(Nil, <<>>, "", <<>>),
      route(Nil, splitsEven, "", <<>>),
      route(Nil, splitsThree, "", <<matchOnHeader(Nil, splitsEven)>>),
      route(actionReturn, <<>>, "", <<matchOnHeader(actionPass("tea"), <<>>)>>) }

RoutePaths == {"/tea", "/coffee"}

withPath(r, path) == [r EXCEPT !.Path = path]

\* The lists of 1..n routes: a first route of any shape at /tea, then later routes
RECURSIVE RouteLists(_)
RouteLists(n) ==
    IF n = 1 THEN { <<withPath(r, "/tea")>> : r \in RouteShapes }
    ELSE RouteLists(n - 1)
         \cup { Append(l, withPath(r, p)) :
                    l \in { x \in RouteLists(n - 1) : Len(x) = n - 1 },
                    r \in LaterRouteShapes, p \in RoutePaths }

UpstreamLists ==
    { <<upstreamFor("tea"), upstreamFor("coffee")>>,
      <<upstreamFor("tea"), upstreamFor("tea")>>,
      <<upstreamFor("coffee")>>,
      <<upstreamFor("tea"), upstreamFor("Coffee_1")>> }

virtualServer(upstreams, routes) ==
    [Namespace |-> "default", Name |-> "cafe",
     Spec |-> [Host |-> "cafe.example.com", TLS |-> Nil, Upstreams |-> upstreams,
               Routes |-> routes]]

virtualServerRoute(name, upstreams, subroutes) ==
    [Namespace |-> "default", Name |-> name,
     Spec |-> [Host |-> "cafe.example.com", Upstreams |-> upstreams,
               Subroutes |-> subroutes]]

\* VirtualServerRoutes: each has its own name
VirtualServerRouteSet ==
    { virtualServerRoute("coffee", <<upstreamFor("coffee")>>,
          <<withPath(route(actionPass("coffee"), <<>>, "", <<>>), "/coffee")>>),
      virtualServerRoute("splits", <<upstreamFor("tea"), upstreamFor("coffee")>>,
          <<withPath(route(Nil, splitsEven, "", <<>>), "/coffee/a"),
            withPath(route(actionPass("tea"), <<>>, "",
                           <<matchOnHeader(actionPass("coffee"), <<>>),
                             matchOnHeader(Nil, splitsEven)>>),
                     "/coffee/b")>>),
      virtualServerRoute("foreign", <<upstreamFor("coffee")>>,
          <<withPath(route(actionPass("tea"), <<>>, "", <<>>), "/coffee")>>),
      virtualServerRoute("noaction", <<upstreamFor("coffee")>>,
          <<withPath(route(Nil, <<>>, "", <<matchOnHeader(actionPass("coffee"), <<>>)>>),
                     "/coffee")>>),
      virtualServerRoute("nested", <<upstreamFor("coffee")>>,
          <<withPath(route(Nil, <<>>, "default/other", <<>>), "/coffee")>>),
      virtualServerRoute("twice", <<upstreamFor("coffee"), upstreamFor("coffee")>>,
          <<withPath(route(actionPass("coffee"), <<>>, "", <<>>), "/coffee"),
            withPath(route(actionReturn, <<>>, "", <<>>), "/coffee")>>) }

\* The lists of at most n VirtualServerRoutes with different names
RECURSIVE VirtualServerRouteLists(_)
VirtualServerRouteLists(n) ==
    IF n = 0 THEN { <<>> }
    ELSE VirtualServerRouteLists(n - 1)
         \cup UNION { { Append(l, v) :
                           v \in { w \in VirtualServerRouteSet :
                                       \A k \in 1..Len(l) : l[k].Name # w.Name } } :
                      l \in { x \in VirtualServerRouteLists(n - 1) : Len(x) = n - 1 } }

\* The routes of the VirtualServers that come with VirtualServerRoutes
BaseRouteLists ==
    { <<withPath(route(actionPass("tea"), <<>>, "", <<>>), "/tea"),
        withPath(route(Nil, <<>>, "default/coffee", <<>>), "/coffee")>>,
      <<withPath(route(Nil, splitsEven, "", <<>>), "/tea")>> }

healthCheck(path, statusMatch) ==
    Ptr([Enable |-> TRUE, Path |-> path, Fails |-> 0, Passes |-> 0, Port |-> 0,
         StatusMatch |-> statusMatch])

sessionCookie(name) ==
    Ptr([Enable |-> TRUE, Name |-> name, Path |-> "/", Expires |-> "1h", Domain |-> ""])

queue(size, timeout) == Ptr([Size |-> size, Timeout |-> timeout])

\* Upstreams that set a health check, a slow start, a session cookie or a queue, with
\* valid and invalid values each
PlusUpstreams ==
    { [upstreamFor("tea") EXCEPT !.HealthCheck = healthCheck("/healthz", "")],
      [upstreamFor("tea") EXCEPT !.HealthCheck = healthCheck("/healthz", "200-204 ! 301")],
      [upstreamFor("tea") EXCEPT !.HealthCheck = healthCheck("healthz", "")],
      [upstreamFor("tea") EXCEPT !.SlowStart = "10s"],
      [upstreamFor("tea") EXCEPT !.SlowStart = "ten"],
      [upstreamFor("tea") EXCEPT !.SessionCookie = sessionCookie("srv_id")],
      [upstreamFor("tea") EXCEPT !.SessionCookie = sessionCookie("")],
      [upstreamFor("tea") EXCEPT !.Queue = queue(10, "10s")],
      [upstreamFor("tea") EXCEPT !.Queue = queue(0, "")],
      [upstreamFor("tea") EXCEPT !.SlowStart = "10s", !.Queue = queue(10, "")] }

LBMethods == {"", "ip_hash", "least_time header"}

PlusUpstreamLists ==
    { <<[u EXCEPT !.LBMethod = m]>> : u \in PlusUpstreams, m \in LBMethods }
    \cup { <<upstreamFor("coffee"), u>> : u \in PlusUpstreams }

virtualServerExOf(vs, vsrs) ==
    [VirtualServer |-> vs,
     Endpoints |-> [k \in {GenerateEndpointsKey("default", "tea-svc", 80)} |->
                        <<"10.0.0.20:80">>],
     VirtualServerRoutes |-> vsrs,
     ExternalNameSvcs |-> {}]

VirtualServerExSet ==
    { virtualServerExOf(
          virtualServer(<<upstreamFor("tea"), upstreamFor("coffee")>>, routes), <<>>) :
        routes \in RouteLists(MaxRoutes) }
    \cup { virtualServerExOf(virtualServer(upstreams, routes), vsrs) :
             upstreams \in UpstreamLists, routes \in BaseRouteLists,
             vsrs \in VirtualServerRouteLists(MaxVirtualServerRoutes) }
    \cup { virtualServerExOf(virtualServer(upstreams, routes), <<>>) :
             upstreams \in PlusUpstreamLists, routes \in BaseRouteLists }

(***************************************************************************)
(* The state machine: one resource is validated, then lowered              *)
(***************************************************************************)

emptyVirtualServerConfig ==
    [Upstreams |-> <<>>, SplitClients |-> <<>>, Maps |-> <<>>, StatusMatches |-> <<>>,
     Server |-> [ServerName |-> "", InternalRedirectLocations |-> <<>>, Locations |-> <<>>,
                 HealthChecks |-> <<>>]]

noRequest == [v \in {} |-> ""]

\* no function has been called with arguments of its own
noArgs == <<>>
noResult == <<>>

\* no VirtualServerRoute has been validated for a VirtualServer
noParent == [virtualServerHost |-> "", vsPath |-> ""]

\* newVirtualServerConfigurator(cfgParams, isPlus, isResolverConfigured)
newVirtualServerConfigurator(cfgParams, isPlus, isResolverConfigured) ==
    [cfgParams |-> cfgParams, isPlus |-> isPlus,
     isResolverConfigured |-> isResolverConfigured, warnings |-> clearWarnings]

defaultCfgParams == [LBMethod |-> "random two least_conn", Keepalive |-> 0]

InitWith(exSet) ==
    /\ virtualServerEx \in exSet
    /\ \E isPlus \in BOOLEAN :
          vsc = newVirtualServerConfigurator(defaultCfgParams, isPlus, FALSE)
    /\ request = noRequest
    /\ vsErrs = <<>>
    /\ vsrErrs = <<>>
    /\ vsCfg = emptyVirtualServerConfig
    /\ panicked = FALSE
    /\ pc = "start"
    /\ parent = noParent
    /\ fnArgs = noArgs
    /\ fnResult = noResult
    /\ heap = <<>>
    /\ calls = <<>>

Init == InitWith(VirtualServerExSet)

\* err := ValidateVirtualServer(vs, isPlus)
ValidateVS ==
    /\ pc = "start"
    /\ vsErrs' = ValidateVirtualServer(virtualServerEx.VirtualServer, vsc.isPlus)
    /\ pc' = "vsValidated"
    /\ UNCHANGED <<virtualServerEx, vsc, request, vsrErrs, vsCfg, panicked, parent, fnArgs,
                   fnResult, heap, calls>>

\* err := ValidateVirtualServerRoute(vsr, isPlus), for each VirtualServerRoute
ValidateVSRs ==
    /\ pc = "vsValidated"
    /\ vsrErrs' = [k \in 1..Len(virtualServerEx.VirtualServerRoutes) |->
                      ValidateVirtualServerRoute(virtualServerEx.VirtualServerRoutes[k],
                                                 vsc.isPlus)]
    /\ pc' = "validated"
    /\ UNCHANGED <<virtualServerEx, vsc, request, vsErrs, vsCfg, panicked, parent, fnArgs,
                   fnResult, heap, calls>>

\* vsCfg, warnings := vsc.GenerateVirtualServerConfig(virtualServerEx, ""): the generator
\* runs on what it is given, validated or not, and panics on a nil Action
Generate ==
    /\ pc = "validated"
    /\ IF generatePanics(virtualServerEx)
       THEN /\ panicked' = TRUE
            /\ vsc' = [vsc EXCEPT !.warnings = clearWarnings]
            /\ UNCHANGED vsCfg
       ELSE LET out == GenerateVirtualServerConfig(vsc, virtualServerEx) IN
            /\ vsCfg' = out.cfg
            /\ vsc' = [vsc EXCEPT !.warnings = out.warnings]
            /\ UNCHANGED panicked
    /\ pc' = "generated"
    /\ UNCHANGED <<virtualServerEx, request, vsErrs, vsrErrs, parent, fnArgs, fnResult, heap,
                   calls>>

Next == ValidateVS \/ ValidateVSRs \/ Generate

Spec == Init /\ [][Next]_vars

\* the resource passed validation: the VirtualServer and each of its VirtualServerRoutes
Validated ==
    /\ pc \notin {"start", "vsValidated"}
    /\ vsErrs = <<>>
    /\ \A k \in 1..Len(vsrErrs) : vsrErrs[k] = <<>>

(***************************************************************************)
(* Properties                                                              *)
(***************************************************************************)

Generated == pc = "generated"

InErrs(e, errs) == \E k \in 1..Len(errs) : errs[k] = e

\* the upstream a location's proxy_pass names: the text after "http://" or "https://"
proxyPassUpstream(loc) ==
    IF HasPrefix(loc.ProxyPass, "https://") THEN TrimPrefix(loc.ProxyPass, "https://")
    ELSE TrimPrefix(loc.ProxyPass, "http://")

emittedUpstreamNames == { vsCfg.Upstreams[k].Name : k \in 1..Len(vsCfg.Upstreams) }

proxyingLocations ==
    { k \in 1..Len(vsCfg.Server.Locations) : vsCfg.Server.Locations[k].ProxyPass # "" }

\* C1: when the VirtualServer and its VirtualServerRoutes passed validation, every
\* location the generator emits with a proxy_pass names an upstream that is among the
\* emitted upstreams: no proxy_pass dangles, whether the location lowers a plain route, a
\* split, a match or a match default, of the VirtualServer or of a VirtualServerRoute.
C1_NoDanglingProxyPass ==
    (Validated /\ Generated) =>
        \A k \in proxyingLocations :
            proxyPassUpstream(vsCfg.Server.Locations[k]) \in emittedUpstreamNames

\* a validated resource whose locations proxy from a plain route, a split, a match and a
\* match default, some of them of a VirtualServerRoute
C1_Witness ==
    /\ Validated /\ Generated
    /\ \E k \in proxyingLocations : vsCfg.Server.Locations[k].Path = "/tea"
    /\ \E k \in proxyingLocations :
          /\ HasPrefix(vsCfg.Server.Locations[k].Path, "@splits_")
          /\ Contains(vsCfg.Server.Locations[k].ProxyPass, "_vsr_")
    /\ \E k \in proxyingLocations : vsCfg.Server.Locations[k].Path = "@matches_0_match_0"
    /\ \E k \in proxyingLocations : vsCfg.Server.Locations[k].Path = "@matches_0_default"

\* the percentage a distribution's weight states: "30%" is 30
percentOf(weight) == ParseDigits(SubSeq(weight, 1, Len(weight) - 1), 0)

RECURSIVE SumPercents(_)
SumPercents(distributions) ==
    IF Len(distributions) = 0 THEN 0
    ELSE percentOf(Head(distributions).Weight) + SumPercents(Tail(distributions))

\* C4: for input that passed validation, every emitted split_clients block has at least
\* two distributions, each weight is a percentage from 1% to 99%, and the weights of a
\* block sum to exactly 100%.
C4_SplitClientWeights ==
    (Validated /\ Generated) =>
        \A k \in 1..Len(vsCfg.SplitClients) :
            LET d == vsCfg.SplitClients[k].Distributions IN
            /\ Len(d) >= 2
            /\ \A i \in 1..Len(d) :
                  /\ HasSuffix(d[i].Weight, "%")
                  /\ AllChars(SubSeq(d[i].Weight, 1, Len(d[i].Weight) - 1), Digit)
                  /\ percentOf(d[i].Weight) >= 1
                  /\ percentOf(d[i].Weight) <= 99
            /\ SumPercents(d) = 100

\* a validated resource lowered to a split_clients block of two and one of three
\* distributions
C4_Witness ==
    /\ Validated /\ Generated
    /\ \E k \in 1..Len(vsCfg.SplitClients) : Len(vsCfg.SplitClients[k].Distributions) = 2
    /\ \E k \in 1..Len(vsCfg.SplitClients) :
          /\ Len(vsCfg.SplitClients[k].Distributions) = 3
          /\ vsCfg.SplitClients[k].Distributions[3].Weight = "40%"

splitClientAndMapVariables ==
    [k \in 1..Len(vsCfg.SplitClients) |-> vsCfg.SplitClients[k].Variable]
    \o [k \in 1..Len(vsCfg.Maps) |-> vsCfg.Maps[k].Variable]

namedLocationPaths ==
    SelectSeq([k \in 1..Len(vsCfg.Server.Locations) |-> vsCfg.Server.Locations[k].Path],
              LAMBDA p : HasPrefix(p, "@"))

PairwiseDistinct(s) == \A i, j \in 1..Len(s) : i # j => s[i] # s[j]

\* C5: within one call of GenerateVirtualServerConfig the variables of the split_clients
\* blocks and of the maps are pairwise distinct, and the paths of the named locations
\* (those that start with @) are pairwise distinct.
C5_DistinctNames ==
    (Generated /\ ~panicked) =>
        /\ PairwiseDistinct(splitClientAndMapVariables)
        /\ PairwiseDistinct(namedLocationPaths)

\* a call that emitted three split_clients blocks and the maps of a matches route
C5_Witness ==
    /\ Generated /\ ~panicked
    /\ Len(vsCfg.SplitClients) >= 3
    /\ Len(vsCfg.Maps) >= 2
    /\ Len(namedLocationPaths) >= 7

\* the routes the generator lowers: the VirtualServer's routes that do not reference a
\* VirtualServerRoute, and the subroutes of the VirtualServerRoutes
loweredRoutes ==
    SelectSeq(virtualServerEx.VirtualServer.Spec.Routes, LAMBDA r : r.Route = "")
    \o Flatten([k \in 1..Len(virtualServerEx.VirtualServerRoutes) |->
                   virtualServerEx.VirtualServerRoutes[k].Spec.Subroutes])

everySplitHasAction(splits) == \A i \in 1..Len(splits) : ~IsNil(splits[i].Action)

\* C6: generation never fails on input that passed validation: every lowered route has an
\* action or non-empty splits, every split has an action, every match has an action or
\* non-empty splits, so the generator never reads a nil action.
C6_GenerationNeverFails ==
    Validated =>
        /\ \A k \in 1..Len(loweredRoutes) :
              LET r == loweredRoutes[k] IN
              /\ ~IsNil(r.Action) \/ Len(r.Splits) > 0
              /\ everySplitHasAction(r.Splits)
              /\ \A i \in 1..Len(r.Matches) :
                    /\ ~IsNil(r.Matches[i].Action) \/ Len(r.Matches[i].Splits) > 0
                    /\ everySplitHasAction(r.Matches[i].Splits)
        /\ ~generatePanics(virtualServerEx)
        /\ ~panicked

\* a validated resource with a matches route and splits has been lowered
C6_Witness ==
    /\ Validated /\ Generated /\ ~panicked
    /\ \E k \in 1..Len(loweredRoutes) :
          /\ Len(loweredRoutes[k].Matches) > 0
          /\ Len(loweredRoutes[k].Matches[1].Splits) > 0
          /\ Len(loweredRoutes[k].Splits) > 0
    /\ Len(vsCfg.Server.Locations) >= 5

upstreamsOf(vs) == vs.Spec.Upstreams

hasPlusResource(u) ==
    ~IsNil(u.HealthCheck) \/ u.SlowStart # "" \/ ~IsNil(u.SessionCookie) \/ ~IsNil(u.Queue)

someUpstreamHasPlusResource ==
    \E i \in 1..Len(upstreamsOf(virtualServerEx.VirtualServer)) :
        hasPlusResource(upstreamsOf(virtualServerEx.VirtualServer)[i])

\* the VirtualServer without the health checks, slow starts, session cookies and queues
withoutPlusResources(vs) ==
    [vs EXCEPT !.Spec.Upstreams =
        [i \in 1..Len(vs.Spec.Upstreams) |->
            [vs.Spec.Upstreams[i] EXCEPT !.HealthCheck = Nil, !.SlowStart = "",
                                         !.SessionCookie = Nil, !.Queue = Nil]]]

plusResourceErrors(u, idxPath) ==
    validateUpstreamHealthCheck(u.HealthCheck, Child(idxPath, "healthCheck"))
    \o validateTime(u.SlowStart, Child(idxPath, "slow-start"))
    \o validateQueue(u.Queue, Child(idxPath, "queue"))
    \o validateSessionCookie(u.SessionCookie, Child(idxPath, "sessionCookie"))

\* C7 as the spec states it: a VirtualServer in which some upstream sets a health check, a
\* slow start, a session cookie or a queue fails validation in OSS mode and succeeds in
\* commercial mode.  It is read here for VirtualServers that have nothing else wrong.
C7_Original ==
    (/\ pc # "start"
     /\ someUpstreamHasPlusResource
     /\ ValidateVirtualServer(withoutPlusResources(virtualServerEx.VirtualServer),
                              vsc.isPlus) = <<>>) =>
        IF vsc.isPlus THEN vsErrs = <<>> ELSE vsErrs # <<>>

\* C7, amended: in OSS mode validation reports a Forbidden error at each health check,
\* slow start, session cookie and queue an upstream sets; in commercial mode it reports no
\* Forbidden error, and it succeeds exactly when the values of those fields are valid and
\* the VirtualServer without them is valid.
C7_PlusResourceGating ==
    pc # "start" =>
        LET vs == virtualServerEx.VirtualServer
            ups == upstreamsOf(vs)
            idx(i) == Index("spec.upstreams", i - 1)
        IN IF vsc.isPlus
           THEN /\ \A k \in 1..Len(vsErrs) : vsErrs[k].Type # "Forbidden"
                /\ vsErrs = <<>> <=>
                      /\ ValidateVirtualServer(withoutPlusResources(vs), TRUE) = <<>>
                      /\ \A i \in 1..Len(ups) : plusResourceErrors(ups[i], idx(i)) = <<>>
           ELSE \A i \in 1..Len(ups) :
                /\ ~IsNil(ups[i].HealthCheck) =>
                       InErrs(Forbidden(Child(idx(i), "healthCheck")), vsErrs)
                /\ ups[i].SlowStart # "" =>
                       InErrs(Forbidden(Child(idx(i), "slow-start")), vsErrs)
                /\ ~IsNil(ups[i].SessionCookie) =>
                       InErrs(Forbidden(Child(idx(i), "sessionCookie")), vsErrs)
                /\ ~IsNil(ups[i].Queue) =>
                       InErrs(Forbidden(Child(idx(i), "queue")), vsErrs)

\* in commercial mode a VirtualServer whose upstream sets a slow start and a queue has
\* been validated without error
C7_Witness ==
    /\ pc # "start" /\ vsc.isPlus /\ vsErrs = <<>>
    /\ \E i \in 1..Len(upstreamsOf(virtualServerEx.VirtualServer)) :
          /\ upstreamsOf(virtualServerEx.VirtualServer)[i].SlowStart # ""
          /\ ~IsNil(upstreamsOf(virtualServerEx.VirtualServer)[i].Queue)

setsExactlyOne(fields) == Cardinality({ i \in 1..Len(fields) : fields[i] }) = 1

routeSetsExactlyOne(r) ==
    setsExactlyOne(<<~IsNil(r.Action), Len(r.Splits) > 0, r.Route # "">>)

matchSetsExactlyOne(m) == setsExactlyOne(<<~IsNil(m.Action), Len(m.Splits) > 0>>)

routeIsWellFormed(r) ==
    /\ routeSetsExactlyOne(r)
    /\ \A i \in 1..Len(r.Matches) : matchSetsExactlyOne(r.Matches[i])

errorUnder(errs, fieldPath) == \E k \in 1..Len(errs) : HasPrefix(errs[k].Field, fieldPath)

\* C8: validation accepts a route only if it sets exactly one of action, non-empty splits
\* and route, and an entry of matches only if it sets exactly one of action and non-empty
\* splits; every other combination yields at least one error, reported under the route.
C8_ExactlyOneOf ==
    /\ pc # "start" =>
          \A i \in 1..Len(virtualServerEx.VirtualServer.Spec.Routes) :
              ~routeIsWellFormed(virtualServerEx.VirtualServer.Spec.Routes[i]) =>
                  errorUnder(vsErrs, Index("spec.routes", i - 1))
    /\ pc \notin {"start", "vsValidated"} =>
          \A k \in 1..Len(virtualServerEx.VirtualServerRoutes) :
              \A i \in 1..Len(virtualServerEx.VirtualServerRoutes[k].Spec.Subroutes) :
                  ~routeIsWellFormed(virtualServerEx.VirtualServerRoutes[k].Spec.Subroutes[i])
                      => errorUnder(vsrErrs[k], Index("spec.subroutes", i - 1))

\* a VirtualServer passed with a route that sets only an action, one that sets only route
\* and a match that sets only an action
C8_Witness ==
    /\ pc # "start" /\ vsErrs = <<>>
    /\ \E i, j \in 1..Len(virtualServerEx.VirtualServer.Spec.Routes) :
          LET ri == virtualServerEx.VirtualServer.Spec.Routes[i]
              rj == virtualServerEx.VirtualServer.Spec.Routes[j]
          IN /\ ri.Route # "" /\ IsNil(ri.Action)
             /\ ~IsNil(rj.Action) /\ Len(rj.Matches) > 0 /\ ~IsNil(rj.Matches[1].Action)

namesOf(upstreams) == [i \in 1..Len(upstreams) |-> upstreams[i].Name]

pathsOf(routes) == [i \in 1..Len(routes) |-> routes[i].Path]

\* C9: in a VirtualServer or VirtualServerRoute that passed validation the upstream names
\* are pairwise distinct and the paths of the routes or subroutes are pairwise distinct:
\* duplicates are rejected.
C9_NoDuplicates ==
    /\ (pc # "start" /\ vsErrs = <<>>) =>
          /\ PairwiseDistinct(namesOf(virtualServerEx.VirtualServer.Spec.Upstreams))
          /\ PairwiseDistinct(pathsOf(virtualServerEx.VirtualServer.Spec.Routes))
    /\ pc \notin {"start", "vsValidated"} =>
          \A k \in 1..Len(virtualServerEx.VirtualServerRoutes) :
              vsrErrs[k] = <<>> =>
                  /\ PairwiseDistinct(
                         namesOf(virtualServerEx.VirtualServerRoutes[k].Spec.Upstreams))
                  /\ PairwiseDistinct(
                         pathsOf(virtualServerEx.VirtualServerRoutes[k].Spec.Subroutes))

\* a VirtualServer with two upstreams and two routes and a VirtualServerRoute with two
\* upstreams and two subroutes passed validation
C9_Witness ==
    /\ Validated
    /\ Len(virtualServerEx.VirtualServer.Spec.Upstreams) = 2
    /\ Len(virtualServerEx.VirtualServer.Spec.Routes) = 2
    /\ \E k \in 1..Len(virtualServerEx.VirtualServerRoutes) :
          /\ Len(virtualServerEx.VirtualServerRoutes[k].Spec.Upstreams) = 2
          /\ Len(virtualServerEx.VirtualServerRoutes[k].Spec.Subroutes) = 2

\* the errors validation finds in routes[i] of the VirtualServer taken alone
routeErrsAlone(i) ==
    LET spec == virtualServerEx.VirtualServer.Spec IN
    validateVirtualServerRoutesStep(
        spec.Routes[i], Index("spec.routes", i - 1),
        validateUpstreams(spec.Upstreams, "spec.upstreams", vsc.isPlus).names, {}).errs

\* the errors validation finds in upstreams[i] of the VirtualServer taken alone
upstreamErrsAlone(i) ==
    validateUpstream(virtualServerEx.VirtualServer.Spec.Upstreams[i],
                     Index("spec.upstreams", i - 1), vsc.isPlus, {}).errs

\* the errors validation finds in subroutes[i] of VirtualServerRoutes[k] taken alone
subrouteErrsAlone(k, i) ==
    LET spec == virtualServerEx.VirtualServerRoutes[k].Spec IN
    validateVirtualServerRouteSubroutesStep(
        spec.Subroutes[i], Index("spec.subroutes", i - 1),
        validateUpstreams(spec.Upstreams, "spec.upstreams", vsc.isPlus).names, "/", {}).errs

AllInErrs(some, errs) == \A k \in 1..Len(some) : InErrs(some[k], errs)

MaxMatches == 2
MaxConditions == 2

MatchConditions ==
    { condition("x-version", "", v) : v \in {"v2", "!v2", "", "!", "default"} }
    \cup { condition("", "$request_method", v) : v \in {"GET", "!GET"} }

LaterMatchConditions ==
    { condition("x-version", "", "!default"), condition("", "$request_method", "GET") }

\* The lists of 1..n conditions
RECURSIVE ConditionLists(_)
ConditionLists(n) ==
    IF n = 1 THEN { <<c>> : c \in MatchConditions }
    ELSE ConditionLists(n - 1)
         \cup { Append(l, c) : l \in { x \in ConditionLists(n - 1) : Len(x) = n - 1 },
                               c \in LaterMatchConditions }

splitsUneven == <<split(60, actionPass("tea")), split(40, actionPass("coffee"))>>

FirstMatches ==
    { match(conditions, actionPass("tea"), <<>>) : conditions \in ConditionLists(MaxConditions) }
    \cup { match(conditions, Nil, splitsUneven) : conditions \in ConditionLists(MaxConditions) }

LaterMatches ==
    { match(conditions, actionPass("coffee"), <<>>) :
          conditions \in { <<condition("", "$request_method", "GET")>>,
                           <<condition("x-version", "", "!"),
                             condition("", "$request_method", "!GET")>> } }
    \cup { match(<<condition("x-version", "", "v2")>>, Nil, splitsEven) }

\* The lists of 1..n matches
RECURSIVE MatchLists(_)
MatchLists(n) ==
    IF n = 1 THEN { <<m>> : m \in FirstMatches }
    ELSE MatchLists(n - 1)
         \cup { Append(l, m) : l \in { x \in MatchLists(n - 1) : Len(x) = n - 1 },
                               m \in LaterMatches }

MatchesExSet ==
    { virtualServerExOf(
          virtualServer(<<upstreamFor("tea"), upstreamFor("coffee")>>,
              <<withPath(route(Nil, splitsEven, "", <<>>), "/coffee"),
                withPath(route(d[1], d[2], "", matches), "/tea")>>), <<>>) :
        matches \in MatchLists(MaxMatches),
        d \in { <<actionReturn, <<>> >>, <<Nil, splitsThree>> } }

\* The values of the variables a request gives the conditions' sources
Requests ==
    { [v \in {"$http_x_version", "$request_method"} |->
          IF v = "$http_x_version" THEN version ELSE method] :
        version \in {"v2", "", "default"}, method \in {"GET", "POST"} }

InitMatches ==
    /\ virtualServerEx \in MatchesExSet
    /\ vsc = newVirtualServerConfigurator(defaultCfgParams, FALSE, FALSE)
    /\ request = noRequest
    /\ vsErrs = <<>>
    /\ vsrErrs = <<>>
    /\ vsCfg = emptyVirtualServerConfig
    /\ panicked = FALSE
    /\ pc = "start"
    /\ parent = noParent
    /\ fnArgs = noArgs
    /\ fnResult = noResult
    /\ heap = <<>>
    /\ calls = <<>>

\* NGINX receives a request while it runs the generated configuration
ServeRequest ==
    /\ pc = "generated"
    /\ ~panicked
    /\ request' \in Requests
    /\ pc' = "served"
    /\ UNCHANGED <<virtualServerEx, vsc, vsErrs, vsrErrs, vsCfg, panicked, parent, fnArgs,
                   fnResult, heap, calls>>

NextMatches == ValidateVS \/ ValidateVSRs \/ Generate \/ ServeRequest

SpecMatches == InitMatches /\ [][NextMatches]_vars

\* A parameter's value as NGINX reads it: "..." is the text between the quotes, \x is x
parameterText(value) ==
    IF HasPrefix(value, "\"") THEN SubSeq(value, 2, Len(value) - 1)
    ELSE IF HasPrefix(value, "\\") THEN Tail(value)
    ELSE value

\* whether a parameter selects its result for the source: a value ~^p is the regular
\* expression that matches the sources that start with p, any other value is compared
parameterHits(value, source) ==
    IF HasPrefix(value, "~^") THEN HasPrefix(source, SubSeq(value, 3, Len(value)))
    ELSE parameterText(value) = source

hasMap(maps, variable) == \E k \in 1..Len(maps) : maps[k].Variable = variable

\* The value NGINX gives a variable: the result of its map, the request's value, or, for
\* a variable of neither kind (a split_clients variable), the variable itself
RECURSIVE evalVariable(_, _, _)
RECURSIVE evalSource(_, _, _)
evalMap(maps, env, m) ==
    LET source == evalSource(maps, env, Tail(Split(m.Source, "$")))
        hits == { k \in 1..Len(m.Parameters) :
                      /\ m.Parameters[k].Value # "default"
                      /\ parameterHits(m.Parameters[k].Value, source) }
        defaults == { k \in 1..Len(m.Parameters) : m.Parameters[k].Value = "default" }
        result == IF hits # {}
                  THEN m.Parameters[CHOOSE k \in hits : \A l \in hits : k <= l].Result
                  ELSE IF defaults # {} THEN m.Parameters[CHOOSE k \in defaults : TRUE].Result
                  ELSE ""
    IN IF HasPrefix(result, "$") THEN evalVariable(maps, env, result) ELSE result

evalVariable(maps, env, name) ==
    IF hasMap(maps, name)
    THEN evalMap(maps, env, maps[CHOOSE k \in 1..Len(maps) : maps[k].Variable = name])
    ELSE IF name \in DOMAIN env THEN env[name]
    ELSE name

\* the value of a source that is a sequence of variables, given their names without $
evalSource(maps, env, names) ==
    IF Len(names) = 0 THEN ""
    ELSE evalVariable(maps, env, "$" \o Head(names)) \o evalSource(maps, env, Tail(names))

\* whether the request meets a condition: its source equals the value, or, for a value
\* that starts with !, differs from the rest of the value
conditionHolds(c, env) ==
    LET source == env[getNameForSourceForMatchesRouteMapFromCondition(c)] IN
    IF HasPrefix(c.Value, "!") THEN source # Tail(c.Value) ELSE source = c.Value

matchHolds(m, env) == \A j \in 1..Len(m.Conditions) : conditionHolds(m.Conditions[j], env)

\* what a location does: the upstream it proxies to, or the text it returns
locationDoes(loc) == <<loc.ProxyPass, IF IsNil(loc.Return) THEN "" ELSE Deref(loc.Return).Text>>

locationAt(path) ==
    vsCfg.Server.Locations[CHOOSE k \in 1..Len(vsCfg.Server.Locations) :
                               vsCfg.Server.Locations[k].Path = path]

\* what the target of a map does: a named location, or the locations a split_clients
\* variable distributes to
targetDoes(target) ==
    IF HasPrefix(target, "@")
    THEN IF \E k \in 1..Len(vsCfg.Server.Locations) : vsCfg.Server.Locations[k].Path = target
         THEN <<locationDoes(locationAt(target))>>
         ELSE <<>>
    ELSE Flatten([k \in 1..Len(vsCfg.SplitClients) |->
            IF vsCfg.SplitClients[k].Variable = target
            THEN [i \in 1..Len(vsCfg.SplitClients[k].Distributions) |->
                     <<vsCfg.SplitClients[k].Distributions[i].Weight>>
                     \o locationDoes(locationAt(vsCfg.SplitClients[k].Distributions[i].Value))]
            ELSE <<>>])

\* what an action of the VirtualServer asks for
actionDoes(action) ==
    IF ~IsNil(action.Redirect) THEN <<"", Deref(action.Redirect).URL>>
    ELSE IF ~IsNil(action.Return) THEN <<"", Deref(action.Return).Body>>
    ELSE <<"http://" \o GetNameForUpstream(
                newUpstreamNamerForVirtualServer(virtualServerEx.VirtualServer), action.Pass),
           "">>

\* what an action or splits ask for
routingDoes(action, splits) ==
    IF Len(splits) > 0
    THEN [i \in 1..Len(splits) |->
             <<FormatInt(splits[i].Weight) \o "%">> \o actionDoes(Deref(splits[i].Action))]
    ELSE <<actionDoes(Deref(action))>>

\* the routes with matches of the VirtualServer that the generator lowers
matchesRoutesOf(vs) ==
    SelectSeq(vs.Spec.Routes, LAMBDA r : r.Route = "" /\ Len(r.Matches) > 0)

\* the main map of a route: the map whose variable the route's internal redirect names
mainMapOf(r) ==
    LET irls == vsCfg.Server.InternalRedirectLocations
        irl == irls[CHOOSE k \in 1..Len(irls) : irls[k].Path = r.Path]
    IN vsCfg.Maps[CHOOSE k \in 1..Len(vsCfg.Maps) : vsCfg.Maps[k].Variable = irl.Destination]

\* the match a request is routed by: the lowest-index match that holds, 0 when none does
routedBy(r, env) ==
    IF \E k \in 1..Len(r.Matches) : matchHolds(r.Matches[k], env)
    THEN CHOOSE k \in 1..Len(r.Matches) :
             /\ matchHolds(r.Matches[k], env)
             /\ \A l \in 1..(k - 1) : ~matchHolds(r.Matches[l], env)
    ELSE 0

\* C2: the maps generateMatchesConfig emits preserve the routing of the matches: evaluated
\* as NGINX evaluates maps, the first-condition variable of match k is 1 exactly when every
\* condition of match k holds and 0 otherwise, and the main map yields the target of the
\* lowest-index match whose conditions all hold, or the default target when none holds.
C2_MapsPreserveRouting ==
    (pc = "served" /\ Validated) =>
        LET routes == matchesRoutesOf(virtualServerEx.VirtualServer) IN
        \A n \in 1..Len(routes) :
            LET r == routes[n]
                main == mainMapOf(r)
                firsts == Tail(Split(main.Source, "$"))
                by == routedBy(r, request)
            IN /\ Len(firsts) = Len(r.Matches)
               /\ \A k \in 1..Len(r.Matches) :
                     evalVariable(vsCfg.Maps, request, "$" \o firsts[k])
                     = IF matchHolds(r.Matches[k], request) THEN "1" ELSE "0"
               /\ targetDoes(evalMap(vsCfg.Maps, request, main))
                  = IF by = 0 THEN routingDoes(r.Action, r.Splits)
                    ELSE routingDoes(r.Matches[by].Action, r.Matches[by].Splits)

\* a request that fails the first match, which has a negated condition, and is routed by
\* the second match
C2_Witness ==
    /\ pc = "served" /\ Validated
    /\ \E n \in 1..Len(matchesRoutesOf(virtualServerEx.VirtualServer)) :
          LET r == matchesRoutesOf(virtualServerEx.VirtualServer)[n] IN
          /\ Len(r.Matches) = 2
          /\ Len(r.Matches[1].Conditions) = 2
          /\ HasPrefix(r.Matches[1].Conditions[1].Value, "!")
          /\ conditionHolds(r.Matches[1].Conditions[1], request)
          /\ ~conditionHolds(r.Matches[1].Conditions[2], request)
          /\ routedBy(r, request) = 2
          /\ evalMap(vsCfg.Maps, request, mainMapOf(r)) = "@matches_0_match_1"

\* the index in vsCfg.Maps of the main map of a route
mainMapIndexOf(r) ==
    CHOOSE k \in 1..Len(vsCfg.Maps) : vsCfg.Maps[k].Variable = mainMapOf(r).Variable

RECURSIVE conditionsBefore(_, _)
\* the number of conditions of the matches before matches[k]
conditionsBefore(matches, k) ==
    IF k <= 1 THEN 0
    ELSE Len(matches[k - 1].Conditions) + conditionsBefore(matches, k - 1)

RECURSIVE concatVariables(_)
concatVariables(ms) == IF Len(ms) = 0 THEN "" ELSE Head(ms).Variable \o concatVariables(Tail(ms))

\* C3: for every route with n >= 1 matches the main map generateMatchesConfig emits has
\* exactly n+1 parameters, the value of parameter k (from 0) is ~^ followed by k zeros and
\* a 1, the value of the last is default, the source is the concatenation in match order
\* of the first-condition variables of the n matches, and each match with c conditions
\* contributes exactly c per-condition maps before the main map.
C3_MainMapShape ==
    (Validated /\ pc # "validated") =>
        LET routes == matchesRoutesOf(virtualServerEx.VirtualServer) IN
        \A x \in 1..Len(routes) :
            LET r == routes[x]
                n == Len(r.Matches)
                main == mainMapOf(r)
                at == mainMapIndexOf(r)
                total == conditionsBefore(r.Matches, n + 1)
                \* the per-condition map of condition j of match k
                condMap(k, j) == vsCfg.Maps[at - total - 1 + conditionsBefore(r.Matches, k) + j]
            IN /\ Len(main.Parameters) = n + 1
               /\ \A k \in 1..n :
                     main.Parameters[k].Value = "~^" \o Repeat("0", k - 1) \o "1"
               /\ main.Parameters[n + 1].Value = "default"
               /\ at > total
               /\ \A k \in 1..n : \A j \in 1..Len(r.Matches[k].Conditions) :
                     /\ condMap(k, j).Source
                        = getNameForSourceForMatchesRouteMapFromCondition(
                              r.Matches[k].Conditions[j])
                     /\ Len(condMap(k, j).Parameters) = 2
                     /\ condMap(k, j).Parameters[2].Value = "default"
                     /\ j < Len(r.Matches[k].Conditions) =>
                            condMap(k, j + 1).Variable
                            \in { condMap(k, j).Parameters[1].Result,
                                  condMap(k, j).Parameters[2].Result }
               /\ main.Source = concatVariables([k \in 1..n |-> condMap(k, 1)])
               /\ Len(vsCfg.Maps) = total + 1

\* a route with two matches, of two conditions and of one, has been lowered to three
\* per-condition maps and a main map of three parameters
C3_Witness ==
    /\ Validated /\ Generated
    /\ Len(vsCfg.Maps) = 4
    /\ Len(vsCfg.Maps[4].Parameters) = 3
    /\ vsCfg.Maps[4].Parameters[2].Value = "~^01"
    /\ \E r \in { virtualServerEx.VirtualServer.Spec.Routes[k] :
                      k \in 1..Len(virtualServerEx.VirtualServer.Spec.Routes) } :
          /\ Len(r.Matches) = 2
          /\ Len(r.Matches[1].Conditions) = 2
          /\ Len(r.Matches[2].Conditions) = 1

(***************************************************************************)
(* A VirtualServerRoute validated for the VirtualServer route that refers  *)
(* to it                                                                   *)
(***************************************************************************)

MaxSubroutes == 2

\* the paths of subroutes: prefix, regex and exact ones
SubroutePaths == {"/coffee", "/coffee/a", "/tea", "~ ^/coffee/.*", "=/coffee"}

\* the route paths of the VirtualServer that refer to the VirtualServerRoute (vsPath)
ParentPaths == {"", "/", "/coffee", "~ ^/coffee/.*", "=/coffee"}

\* the hosts of the VirtualServer (virtualServerHost)
ParentHosts == {"", "cafe.example.com", "tea.example.com"}

\* the lists of 1..n subroutes: each passes to the upstream coffee, or refers to another
\* resource with its route field
RECURSIVE SubrouteLists(_)
SubrouteLists(n) ==
    IF n = 0 THEN { <<>> }
    ELSE LET shorter == { l \in SubrouteLists(n - 1) : Len(l) = n - 1 } IN
         (IF n = 1 THEN {} ELSE SubrouteLists(n - 1))
         \cup { Append(l, withPath(route(actionPass("coffee"), <<>>, "", <<>>), p)) :
                  l \in shorter, p \in SubroutePaths }
         \cup { Append(l, withPath(route(Nil, <<>>, "default/other", <<>>), "/coffee")) :
                  l \in shorter }
         \cup { Append(l, withPath(route(actionPass("coffee"), <<>>, "default/other", <<>>),
                                   "=/coffee")) : l \in shorter }

SubroutesExSet ==
    { virtualServerExOf(
          virtualServer(<<upstreamFor("tea")>>,
                        <<withPath(route(Nil, <<>>, "default/coffee", <<>>), "/coffee")>>),
          <<virtualServerRoute("coffee", <<upstreamFor("coffee")>>, subroutes)>>) :
        subroutes \in SubrouteLists(MaxSubroutes) }

InitSubroutes == InitWith(SubroutesExSet)

\* err := ValidateVirtualServerRouteForVirtualServer(vsr, virtualServerHost, vsPath, isPlus)
ValidateVSRForVS ==
    /\ pc = "start"
    /\ \E virtualServerHost \in ParentHosts, vsPath \in ParentPaths :
          /\ parent' = [virtualServerHost |-> virtualServerHost, vsPath |-> vsPath]
          /\ vsrErrs' = [k \in 1..Len(virtualServerEx.VirtualServerRoutes) |->
                            ValidateVirtualServerRouteForVirtualServer(
                                virtualServerEx.VirtualServerRoutes[k], virtualServerHost,
                                vsPath, vsc.isPlus)]
    /\ pc' = "validatedForVS"
    /\ UNCHANGED <<virtualServerEx, vsc, request, vsErrs, vsCfg, panicked, heap, calls, fnArgs,
                   fnResult>>

NextSubroutes == ValidateVSRForVS

SpecSubroutes == InitSubroutes /\ [][NextSubroutes]_vars

\* C11: a VirtualServerRoute that ValidateVirtualServerRouteForVirtualServer accepts for a
\* regex or exact parent path has exactly one subroute, whose path is the parent path; one
\* it accepts for a prefix parent path has only subroutes whose path starts with the parent
\* path or is regex or exact; and one with a route field in a subroute is never accepted.
C11_SubroutePathCoupling ==
    pc = "validatedForVS" =>
        \A k \in 1..Len(vsrErrs) :
            LET subroutes == virtualServerEx.VirtualServerRoutes[k].Spec.Subroutes IN
            /\ vsrErrs[k] = <<>> =>
                  IF isRegexOrExactMatch(parent.vsPath)
                  THEN Len(subroutes) = 1 /\ subroutes[1].Path = parent.vsPath
                  ELSE \A i \in 1..Len(subroutes) :
                           \/ HasPrefix(subroutes[i].Path, parent.vsPath)
                           \/ isRegexOrExactMatch(subroutes[i].Path)
            /\ (\E i \in 1..Len(subroutes) : subroutes[i].Route # "") => vsrErrs[k] # <<>>

\* a VirtualServerRoute was accepted for an exact parent path of the VirtualServer
C11_Witness ==
    /\ pc = "validatedForVS"
    /\ vsrErrs = << <<>> >>
    /\ parent.vsPath = "=/coffee"
    /\ parent.virtualServerHost = "cafe.example.com"

(***************************************************************************)
(* The names of the NGINX variables the generator emits                    *)
(***************************************************************************)

\* namespaces are DNS labels, resource names are DNS subdomains: Kubernetes admits
\* hyphens in both and dots in names
Namespaces == {"default", "my-ns"}
VirtualServerNames == {"cafe", "cafe-v2", "cafe.v2"}

\* conditions on a header, a cookie, an argument and a variable, valid and invalid
NamedConditions ==
    { condition("x-version", "", "v2"),
      condition("x version", "", "v2"),
      [condition("", "", "v2") EXCEPT !.Cookie = "user_id"],
      [condition("", "", "v2") EXCEPT !.Cookie = "user-id"],
      [condition("", "", "v2") EXCEPT !.Argument = "arg_1"],
      [condition("", "", "v2") EXCEPT !.Argument = "arg.1"],
      condition("", "$request_method", "GET"),
      condition("", "$request-method", "GET"),
      condition("", "request_method", "GET") }

NamedRoutes ==
    { route(Nil, splitsEven, "", <<>>) }
    \cup { route(actionPass("tea"), <<>>, "", <<match(<<c>>, actionPass("coffee"), <<>>)>>) :
             c \in NamedConditions }
    \cup { route(actionPass("tea"), <<>>, "", <<match(<<c>>, Nil, splitsEven)>>) :
             c \in {condition("x-version", "", "v2")} }

NamesExSet ==
    { virtualServerExOf(
          [virtualServer(<<upstreamFor("tea"), upstreamFor("coffee")>>,
                         <<withPath(r, "/tea")>>)
              EXCEPT !.Namespace = ns, !.Name = name],
          <<>>) :
        ns \in Namespaces, name \in VirtualServerNames, r \in NamedRoutes }

InitNames == InitWith(NamesExSet)

SpecNames == InitNames /\ [][Next]_vars

\* $ followed by characters of [A-Za-z0-9_] only
safeVariableName(name) ==
    /\ HasPrefix(name, "$")
    /\ Len(name) > 1
    /\ AllChars(Tail(name), Lower \cup Upper \cup Digit \cup {"_"})

\* the maps of single conditions: their variable is named ..._match_m_cond_c
conditionMaps == { k \in 1..Len(vsCfg.Maps) : Contains(vsCfg.Maps[k].Variable, "_cond_") }

splitClientVariablesAreSafe ==
    \A k \in 1..Len(vsCfg.SplitClients) : safeVariableName(vsCfg.SplitClients[k].Variable)

mapVariablesAreSafe ==
    \A k \in 1..Len(vsCfg.Maps) : safeVariableName(vsCfg.Maps[k].Variable)

conditionSourcesAreSafe == \A k \in conditionMaps : safeVariableName(vsCfg.Maps[k].Source)

\* C12: every variable name the generator emits for a validated VirtualServer, of whatever
\* namespace and name, is $ followed by characters of [A-Za-z0-9_]: the split-client
\* variables, the variables of the per-condition maps and of the main maps, and the
\* sources of the per-condition maps.
C12_NameSafety ==
    (Generated /\ Validated /\ ~panicked) =>
        /\ splitClientVariablesAreSafe
        /\ mapVariablesAreSafe
        /\ conditionSourcesAreSafe

\* what holds of the names: the sources of the per-condition maps are safe, and so is
\* every variable of a VirtualServer whose name has no dot
namesAreSafeWithoutDots ==
    (Generated /\ Validated /\ ~panicked) =>
        /\ conditionSourcesAreSafe
        /\ ~Contains(virtualServerEx.VirtualServer.Name, ".") =>
               splitClientVariablesAreSafe /\ mapVariablesAreSafe

(***************************************************************************)
(* The values of conditions, from the resource to the map parameter        *)
(***************************************************************************)

MaxValueLen == 3
ValueAlphabet == {"a", "!", "\"", "\\"}

RECURSIVE ValueStrings(_)
ValueStrings(n) ==
    IF n = 0 THEN {""}
    ELSE LET shorter == ValueStrings(n - 1)
         IN shorter \cup { s \o ch : s \in shorter, ch \in ValueAlphabet }

ConditionValues ==
    ValueStrings(MaxValueLen)
    \cup specialMapParameters
    \cup { "!" \o w : w \in specialMapParameters }
    \cup { "v2", "!v2", "value-123", "\\\"quoted\\\"", "defaults", "\\default" }

ValuesExSet ==
    { virtualServerExOf(
          virtualServer(<<upstreamFor("tea"), upstreamFor("coffee")>>,
              <<withPath(route(actionPass("tea"), <<>>, "",
                               <<match(<<condition("x-version", "", value)>>,
                                       actionPass("coffee"), <<>>)>>), "/tea")>>), <<>>) :
        value \in ConditionValues }

InitValues == InitWith(ValuesExSet)

SpecValues == InitValues /\ [][Next]_vars

\* the value of the one condition of the resource, and the first parameter of its map
conditionValue == virtualServerEx.VirtualServer.Spec.Routes[1].Matches[1].Conditions[1].Value
emittedValue == vsCfg.Maps[1].Parameters[1].Value

valueIsEmitted ==
    /\ Generated /\ Validated /\ ~panicked
    /\ Len(vsCfg.Maps) > 0
    /\ Contains(vsCfg.Maps[1].Variable, "_cond_")

\* C13 as stated: every condition value the validator accepts is emitted unchanged inside
\* double quotes as the value of the first parameter of the map of its condition.
C13_Original == valueIsEmitted => emittedValue = "\"" \o conditionValue \o "\""

\* C13: a condition value the validator accepts is emitted as the value of the first
\* parameter of the map of its condition without its leading !, if it has one; what is
\* left is emitted unchanged inside double quotes, unless it is one of default, hostnames,
\* include and volatile, which is emitted behind a backslash without quotes.
C13_ValueRoundTrip ==
    valueIsEmitted =>
        LET v == conditionValue
            rest == IF HasPrefix(v, "!") THEN SubSeq(v, 2, Len(v)) ELSE v
        IN /\ isValidMatchValue(v)
           /\ emittedValue = IF rest \in {"default", "hostnames", "include", "volatile"}
                             THEN "\\" \o rest
                             ELSE "\"" \o rest \o "\""

\* a value with a leading ! and an escaped quote has been emitted
C13_Witness ==
    /\ valueIsEmitted
    /\ conditionValue = "!\\\""
    /\ emittedValue = "\"\\\"\""

(***************************************************************************)
(* Upstreams: endpoints, ExternalName services, keepalive, slow start and  *)
(* the warnings of a compile                                               *)
(***************************************************************************)

MaxUpstreams == 2

\* what an upstream sets among keepalive, lb-method and slow-start
upstreamVariant(keepalive, lbMethod, slowStart) ==
    [Keepalive |-> keepalive, LBMethod |-> lbMethod, SlowStart |-> slowStart]

UpstreamVariants ==
    { upstreamVariant(Nil, "", ""),
      upstreamVariant(Ptr(0), "", ""),
      upstreamVariant(Ptr(32), "least_conn", "10s"),
      upstreamVariant(Nil, "ip_hash", "10s"),
      upstreamVariant(Nil, "hash $request_uri consistent", "10s"),
      upstreamVariant(Nil, "", "10s"),
      upstreamVariant(Ptr(32), "round_robin", "10s"),
      upstreamVariant(Ptr(0), "random", "") }

\* the variants of the upstreams that come with other upstreams
KeyVariants ==
    { upstreamVariant(Ptr(0), "", ""),
      upstreamVariant(Nil, "ip_hash", "10s"),
      upstreamVariant(Ptr(32), "", "10s") }

withVariant(name, v) ==
    [upstreamFor(name) EXCEPT !.Keepalive = v.Keepalive, !.LBMethod = v.LBMethod,
                              !.SlowStart = v.SlowStart]

UpstreamNames == <<"tea", "coffee", "milk", "juice">>

\* The lists of 1..n variants: any variant alone, key variants together
RECURSIVE VariantLists(_)
VariantLists(n) ==
    IF n = 1 THEN { <<v>> : v \in UpstreamVariants }
    ELSE VariantLists(n - 1)
         \cup { Append(l, w) :
                    l \in { x \in VariantLists(n - 1) :
                                Len(x) = n - 1 /\ \A k \in 1..Len(x) : x[k] \in KeyVariants },
                    w \in KeyVariants }

\* a VirtualServerRoute with one upstream tea and one subroute that proxies to it
routeWithUpstream(name, v) ==
    virtualServerRoute(name, <<withVariant("tea", v)>>,
        <<withPath(route(actionPass("tea"), <<>>, "", <<>>), "/" \o name)>>)

RouteWithUpstreamLists ==
    { <<routeWithUpstream("beans", v)>> : v \in KeyVariants }
    \cup { <<routeWithUpstream("beans", upstreamVariant(Nil, "ip_hash", "10s")),
             routeWithUpstream("leaves", v)>> :
             v \in { upstreamVariant(Nil, "ip_hash", "10s"), upstreamVariant(Ptr(0), "", "") } }

\* the VirtualServer with one upstream per variant, a route to each upstream, a route that
\* splits between the first two upstreams unless a header sends the request to the second,
\* and a route to each VirtualServerRoute
virtualServerWithUpstreams(variants, vsrs) ==
    virtualServer(
        [i \in 1..Len(variants) |-> withVariant(UpstreamNames[i], variants[i])],
        [i \in 1..Len(variants) |->
            withPath(route(actionPass(UpstreamNames[i]), <<>>, "", <<>>),
                     "/" \o UpstreamNames[i])]
        \o (IF Len(variants) < 2 THEN <<>>
            ELSE <<withPath(route(Nil,
                                  <<split(50, actionPass(UpstreamNames[1])),
                                    split(50, actionPass(UpstreamNames[2]))>>, "",
                                  <<matchOnHeader(actionPass(UpstreamNames[2]), <<>>)>>),
                            "/both")>>)
        \o [k \in 1..Len(vsrs) |->
               withPath(route(Nil, <<>>, "default/" \o vsrs[k].Name, <<>>),
                        "/" \o vsrs[k].Name)])

\* virtualServerEx.Endpoints: no entry for tea-svc, an empty one, one of two addresses
EndpointTables ==
    { [k \in {} |-> <<>>],
      [k \in {GenerateEndpointsKey("default", "tea-svc", 80)} |-> <<>>],
      [k \in {GenerateEndpointsKey("default", "tea-svc", 80)} |->
          <<"10.0.0.20:80", "10.0.0.10:80">>] }

ExternalNameSvcSets == { {}, {GenerateExternalNameSvcKey("default", "tea-svc")} }

\* the fleet defaults of the ConfigMap
FleetDefaults == { defaultCfgParams, [LBMethod |-> "least_conn", Keepalive |-> 16] }

UpstreamsExSet ==
    { [VirtualServer |-> virtualServerWithUpstreams(r[1], r[2]),
       Endpoints |-> endpoints,
       VirtualServerRoutes |-> r[2],
       ExternalNameSvcs |-> externalNameSvcs] :
        r \in { <<l, <<>> >> : l \in VariantLists(MaxUpstreams) }
              \cup { <<l, vsrs>> : l \in { <<v>> : v \in KeyVariants },
                                   vsrs \in RouteWithUpstreamLists },
        endpoints \in EndpointTables,
        externalNameSvcs \in ExternalNameSvcSets }

InitUpstreams ==
    /\ virtualServerEx \in UpstreamsExSet
    /\ \E cfgParams \in FleetDefaults, isPlus \in BOOLEAN, isResolverConfigured \in BOOLEAN :
          vsc = newVirtualServerConfigurator(cfgParams, isPlus, isResolverConfigured)
    /\ request = noRequest
    /\ vsErrs = <<>>
    /\ vsrErrs = <<>>
    /\ vsCfg = emptyVirtualServerConfig
    /\ panicked = FALSE
    /\ pc = "start"
    /\ parent = noParent
    /\ fnArgs = noArgs
    /\ fnResult = noResult
    /\ heap = <<>>
    /\ calls = <<>>

SpecUpstreams == InitUpstreams /\ [][Next]_vars


\* the upstreams of the resources in the order of the upstream loops, each with the resource
\* that owns it: emitted upstream k is made from owned upstream k
ownedUpstreams ==
    LET vs == virtualServerEx.VirtualServer
        vsrs == virtualServerEx.VirtualServerRoutes
    IN [i \in 1..Len(vs.Spec.Upstreams) |->
           [owner |-> "VirtualServer " \o vs.Namespace \o "/" \o vs.Name,
            namespace |-> vs.Namespace, upstream |-> vs.Spec.Upstreams[i]]]
       \o Flatten([k \in 1..Len(vsrs) |->
              [i \in 1..Len(vsrs[k].Spec.Upstreams) |->
                  [owner |-> "VirtualServerRoute " \o vsrs[k].Namespace \o "/" \o vsrs[k].Name,
                   namespace |-> vsrs[k].Namespace, upstream |-> vsrs[k].Spec.Upstreams[i]]]])

compiled == Generated /\ ~panicked /\ Len(vsCfg.Upstreams) = Len(ownedUpstreams)

\* the messages recorded under an owner
warningsOf(owner) ==
    IF owner \in DOMAIN vsc.warnings THEN vsc.warnings[owner] ELSE <<>>

hasWarning(owner, msg) == \E i \in 1..Len(warningsOf(owner)) : warningsOf(owner)[i] = msg

externalNameMessage(u) ==
    "Type ExternalName service " \o u.Service \o " in upstream " \o u.Name
    \o " will be ignored. To use ExternaName services, a resolver must be configured in the "
    \o "ConfigMap"

isExternalNameOwned(o) ==
    (o.namespace \o "/" \o o.upstream.Service) \in virtualServerEx.ExternalNameSvcs

\* the entry of the endpoint table for an owned upstream, empty when there is none
endpointsEntry(o) ==
    LET key == o.namespace \o "/" \o o.upstream.Service \o ":" \o ToString(o.upstream.Port)
    IN IF key \in DOMAIN virtualServerEx.Endpoints THEN virtualServerEx.Endpoints[key]
       ELSE <<>>

causedBy(o) ==
    LET eps == generateEndpointsForUpstream(vsc, clearWarnings, "cause", o.namespace,
                                            o.upstream, virtualServerEx)
        gen == generateUpstream(vsc, eps.warnings, "cause", "", o.upstream, FALSE,
                                eps.endpoints)
    IN IF "cause" \in DOMAIN gen.warnings THEN gen.warnings["cause"] ELSE <<>>

\* the warnings of the upstreams an owner owns, in the order the upstreams are processed
warningsCausedFor(owner) ==
    Flatten([k \in 1..Len(ownedUpstreams) |->
                IF ownedUpstreams[k].owner = owner THEN causedBy(ownedUpstreams[k])
                ELSE <<>>])

\* C16: every warning of a compile is stored under the resource that owns the upstream that
\* caused it: under the key of a VirtualServerRoute are the warnings of its upstreams and no
\* others, under the key of the VirtualServer those of its own upstreams, and the messages
\* under one key are in the order the upstreams were processed.
C16_WarningsKeyedByOwner ==
    compiled =>
        \A owner \in DOMAIN vsc.warnings \cup { ownedUpstreams[k].owner :
                                                  k \in 1..Len(ownedUpstreams) } :
            warningsOf(owner) = warningsCausedFor(owner)

\* a compile recorded one warning under the VirtualServer, two under the first
\* VirtualServerRoute, the ExternalName warning first, and one under the second
C16_Witness ==
    /\ compiled /\ Validated
    /\ Len(virtualServerEx.VirtualServerRoutes) = 2
    /\ Len(warningsOf("VirtualServer default/cafe")) = 1
    /\ Len(warningsOf("VirtualServerRoute default/beans")) = 2
    /\ warningsOf("VirtualServerRoute default/beans")[1]
           = externalNameMessage(ownedUpstreams[2].upstream)
    /\ Len(warningsOf("VirtualServerRoute default/leaves")) = 1


\* the emitted locations that proxy to an upstream
proxyLocations ==
    { k \in 1..Len(vsCfg.Server.Locations) : vsCfg.Server.Locations[k].ProxyPass # "" }

\* C19: the Keepalive emitted for an upstream is the upstream's explicit value when it sets
\* one, an explicit 0 included, and the fleet default otherwise; and an emitted proxy
\* location has HasKeepalive exactly when the Keepalive emitted for the upstream it proxies
\* to is not 0.
C19_KeepalivePointerOrDefault ==
    compiled =>
        /\ \A k \in 1..Len(ownedUpstreams) :
               LET keepalive == ownedUpstreams[k].upstream.Keepalive IN
               vsCfg.Upstreams[k].Keepalive =
                   IF keepalive = <<>> THEN vsc.cfgParams.Keepalive ELSE keepalive[1]
        /\ \A l \in proxyLocations :
               LET loc == vsCfg.Server.Locations[l] IN
               /\ \E k \in 1..Len(vsCfg.Upstreams) :
                      vsCfg.Upstreams[k].Name = proxyPassUpstream(loc)
               /\ \A k \in 1..Len(vsCfg.Upstreams) :
                      vsCfg.Upstreams[k].Name = proxyPassUpstream(loc) =>
                          (loc.HasKeepalive <=> vsCfg.Upstreams[k].Keepalive # 0)

\* with a fleet default of 16, an upstream with an explicit keepalive of 0 and an upstream
\* without keepalive were compiled, and each has its proxy locations, those of a split too
C19_Witness ==
    /\ compiled /\ Validated
    /\ vsc.cfgParams.Keepalive = 16
    /\ Len(ownedUpstreams) = 2
    /\ ownedUpstreams[1].upstream.Keepalive = <<0>>
    /\ ownedUpstreams[2].upstream.Keepalive = <<>>
    /\ vsCfg.Upstreams[1].Keepalive = 0
    /\ vsCfg.Upstreams[2].Keepalive = 16
    /\ Cardinality(proxyLocations) >= 4
    /\ ~vsCfg.Server.Locations[1].HasKeepalive
    /\ vsCfg.Server.Locations[2].HasKeepalive


\* the method an upstream balances with: its own, or the fleet default when it sets none
effectiveLBMethod(u) == IF u.LBMethod = "" THEN vsc.cfgParams.LBMethod ELSE u.LBMethod

slowStartIncompatible(lbMethod) ==
    \/ lbMethod \in {"random", "ip_hash", "random two", "random two least_conn",
                     "random two least_time=header", "random two least_time=last_byte"}
    \/ (Len(lbMethod) >= 4 /\ SubSeq(lbMethod, 1, 4) = "hash")

slowStartMessage(u) ==
    "Slow start will be disabled for upstream " \o u.Name \o " because lb method '"
    \o effectiveLBMethod(u) \o "' is incompatible with slow start"

\* how many slow-start warnings an owner has about an upstream
slowStartWarnings(owner, u) ==
    Cardinality({ i \in 1..Len(warningsOf(owner)) :
                      /\ Len(warningsOf(owner)[i]) >= 41 + Len(u.Name) + 1
                      /\ SubSeq(warningsOf(owner)[i], 1, 41 + Len(u.Name) + 1)
                             = "Slow start will be disabled for upstream " \o u.Name \o " " })

\* C20: on validated input, when in commercial mode an upstream sets slow-start and its
\* effective load-balancing method is random, ip_hash, a random two variant or starts with
\* hash, the emitted slow-start is empty and exactly one warning is recorded for the owning
\* resource; in every other case the slow-start of the upstream is emitted unchanged and no
\* slow-start warning is recorded.
C20_SlowStartSuppression ==
    (compiled /\ Validated) =>
        \A k \in 1..Len(ownedUpstreams) :
            LET o == ownedUpstreams[k]
                u == o.upstream
            IN IF vsc.isPlus /\ u.SlowStart # "" /\ slowStartIncompatible(effectiveLBMethod(u))
               THEN /\ vsCfg.Upstreams[k].SlowStart = ""
                    /\ slowStartWarnings(o.owner, u) = 1
                    /\ hasWarning(o.owner, slowStartMessage(u))
               ELSE /\ vsCfg.Upstreams[k].SlowStart = u.SlowStart
                    /\ slowStartWarnings(o.owner, u) = 0

\* in commercial mode with a fleet default of least_conn, an upstream with ip_hash lost its
\* slow start with a warning and an upstream without a method kept its own
C20_Witness ==
    /\ compiled /\ Validated
    /\ vsc.isPlus
    /\ vsc.cfgParams.LBMethod = "least_conn"
    /\ Len(ownedUpstreams) = 2
    /\ ownedUpstreams[1].upstream.LBMethod = "ip_hash"
    /\ ownedUpstreams[1].upstream.SlowStart = "10s"
    /\ ownedUpstreams[2].upstream.LBMethod = ""
    /\ vsCfg.Upstreams[1].SlowStart = ""
    /\ vsCfg.Upstreams[2].SlowStart = "10s"
    /\ warningsOf(ownedUpstreams[1].owner) = <<slowStartMessage(ownedUpstreams[1].upstream)>>

(***************************************************************************)
(* Calls of GenerateVirtualServerConfig on one configurator.  The warnings  *)
(* maps live on the heap: heap[a] is the map at address a, vsc.warnings is  *)
(* the address the field holds, and a call returns the address it reads     *)
(* from the field when it returns.  Everything else a call works with is    *)
(* local to it: calls[i] is the frame of call i.                            *)
(***************************************************************************)

MaxCalls == 3
ConcurrentCalls == 2

\* vsc.warnings = make(map[runtime.Object][]string) in place: the map the field refers to is
\* emptied
vscClearWarningsInPlace(h, warnings) ==
    [heap |-> [h EXCEPT ![warnings] = clearWarnings], warnings |-> warnings]

\* vsc.warnings = make(map[runtime.Object][]string): [heap, warnings], the heap with a new
\* empty map and the address of that map
vscClearWarnings(h, warnings) ==
    [heap |-> Append(h, clearWarnings), warnings |-> Len(h) + 1]

\* the iterations of the two upstream loops of GenerateVirtualServerConfig, in order
upstreamLoop(vsEx) ==
    LET vs == vsEx.VirtualServer
        vsrs == vsEx.VirtualServerRoutes
    IN [i \in 1..Len(vs.Spec.Upstreams) |->
           [owner |-> ownerOfVS(vs),
            upstreamNamer |-> newUpstreamNamerForVirtualServer(vs),
            upstreamNamespace |-> vs.Namespace,
            u |-> vs.Spec.Upstreams[i]]]
       \o Flatten([k \in 1..Len(vsrs) |->
              [i \in 1..Len(vsrs[k].Spec.Upstreams) |->
                  [owner |-> ownerOfVSR(vsrs[k]),
                   upstreamNamer |-> newUpstreamNamerForVirtualServerRoute(vs, vsrs[k]),
                   upstreamNamespace |-> vsrs[k].Namespace,
                   u |-> vsrs[k].Spec.Upstreams[i]]]])

\* crUpstreams, upstreams, statusMatches and healthChecks when a call begins
noUpstreams ==
    [upstreams |-> <<>>, crUpstreams |-> [n \in {} |-> zeroUpstream],
     healthChecks |-> <<>>, statusMatches |-> <<>>]

\* the frame of a call that has cleared the warnings
newCall(vsEx) ==
    [input |-> vsEx, position |-> 0, locals |-> noUpstreams, returned |-> FALSE,
     cfg |-> emptyVirtualServerConfig, warnings |-> 0]

\* one iteration of the upstream loops of a call: [locals, warnings], the call's variables
\* and the map vsc.warnings refers to, after the iteration
upstreamIteration(c, call, warnings) ==
    LET it == upstreamLoop(call.input)[call.position + 1]
        step == generateUpstreamsStep(c,
                    [upstreams |-> call.locals.upstreams,
                     crUpstreams |-> call.locals.crUpstreams,
                     healthChecks |-> call.locals.healthChecks,
                     statusMatches |-> call.locals.statusMatches,
                     warnings |-> warnings],
                    it.owner, it.upstreamNamer, it.upstreamNamespace, it.u, call.input)
    IN [locals |-> [upstreams |-> step.upstreams, crUpstreams |-> step.crUpstreams,
                    healthChecks |-> step.healthChecks,
                    statusMatches |-> step.statusMatches],
        warnings |-> step.warnings]

\* the configuration a call returns: the upstreams, health checks and status matches its
\* loops have collected, and the routes generated from its crUpstreams
returnedConfig(c, call) ==
    LET vs == call.input.VirtualServer
        variableNamer == newVariableNamer(vs)
        rts0 == [maps |-> <<>>, locations |-> <<>>, internalRedirectLocations |-> <<>>,
                 splitClients |-> <<>>, matchesRoutes |-> 0]
        rts1 == generateRoutesFrom(rts0, vs.Spec.Routes, 1,
                                   newUpstreamNamerForVirtualServer(vs),
                                   call.locals.crUpstreams, variableNamer, c.cfgParams, TRUE)
        rts == generateVSRRoutesFrom(rts1, call.input, 1, call.locals.crUpstreams,
                                     variableNamer, c.cfgParams)
    IN [Upstreams |-> call.locals.upstreams,
        SplitClients |-> rts.splitClients,
        Maps |-> rts.maps,
        StatusMatches |-> call.locals.statusMatches,
        Server |-> [ServerName |-> vs.Spec.Host,
                    InternalRedirectLocations |-> rts.internalRedirectLocations,
                    Locations |-> rts.locations,
                    HealthChecks |-> call.locals.healthChecks]]

\* the resources the calls are made with: VirtualServers cafe and bar, with upstreams that
\* cause no warning, an ExternalName warning, or slow-start warnings
plainUpstream == upstreamVariant(Nil, "", "")
slowUpstream == upstreamVariant(Nil, "ip_hash", "10s")

callInput(name, variants, vsrs, externalNameSvcs) ==
    [VirtualServer |-> [virtualServerWithUpstreams(variants, vsrs) EXCEPT !.Name = name],
     Endpoints |-> [k \in {GenerateEndpointsKey("default", "tea-svc", 80)} |->
                       <<"10.0.0.20:80", "10.0.0.10:80">>],
     VirtualServerRoutes |-> vsrs,
     ExternalNameSvcs |-> externalNameSvcs]

CallInputs ==
    { callInput("cafe", <<plainUpstream>>, <<>>, {}),
      callInput("cafe", <<plainUpstream>>, <<>>, {"default/tea-svc"}),
      callInput("cafe", <<slowUpstream, upstreamVariant(Ptr(32), "", "10s")>>, <<>>, {}),
      callInput("bar", <<plainUpstream, plainUpstream>>, <<>>, {"default/tea-svc"}),
      callInput("bar", <<slowUpstream>>, <<routeWithUpstream("beans", slowUpstream)>>,
                {"default/tea-svc"}) }

\* the callers generate the configuration of resources that have passed validation
isValidInput(vsEx, isPlus) ==
    /\ ValidateVirtualServer(vsEx.VirtualServer, isPlus) = <<>>
    /\ \A k \in 1..Len(vsEx.VirtualServerRoutes) :
           ValidateVirtualServerRoute(vsEx.VirtualServerRoutes[k], isPlus) = <<>>

noVirtualServerEx == virtualServerExOf(virtualServer(<<>>, <<>>), <<>>)

\* vsc := newVirtualServerConfigurator(cfgParams, isPlus, false): the field warnings refers
\* to the map made by the constructor
InitCalls ==
    /\ virtualServerEx = noVirtualServerEx
    /\ \E isPlus \in BOOLEAN :
          vsc = [newVirtualServerConfigurator(defaultCfgParams, isPlus, FALSE)
                    EXCEPT !.warnings = 1]
    /\ heap = <<clearWarnings>>
    /\ calls = <<>>
    /\ request = noRequest
    /\ vsErrs = <<>>
    /\ vsrErrs = <<>>
    /\ vsCfg = emptyVirtualServerConfig
    /\ panicked = FALSE
    /\ pc = "start"
    /\ parent = noParent
    /\ fnArgs = noArgs
    /\ fnResult = noResult

inProgress == { i \in 1..Len(calls) : ~calls[i].returned }

\* vsc.GenerateVirtualServerConfig(vsEx, "") is called and runs vsc.clearWarnings()
beginCall(vsEx) ==
    LET cleared == vscClearWarnings(heap, vsc.warnings) IN
    /\ ~panicked
    /\ isValidInput(vsEx, vsc.isPlus)
    /\ heap' = cleared.heap
    /\ vsc' = [vsc EXCEPT !.warnings = cleared.warnings]
    /\ calls' = Append(calls, newCall(vsEx))
    /\ virtualServerEx' = vsEx
    /\ UNCHANGED <<request, vsErrs, vsrErrs, vsCfg, panicked, pc, parent, fnArgs, fnResult>>

\* a call begins when no call is running
BeginCall ==
    /\ Len(calls) < MaxCalls
    /\ inProgress = {}
    /\ \E vsEx \in CallInputs : beginCall(vsEx)

\* a call for another VirtualServer begins, whatever the other calls are doing
BeginConcurrentCall ==
    /\ Len(calls) < ConcurrentCalls
    /\ \E vsEx \in CallInputs :
          /\ \A i \in 1..Len(calls) :
                 calls[i].input.VirtualServer.Name # vsEx.VirtualServer.Name
          /\ beginCall(vsEx)

\* a call runs one iteration of its upstream loops: addWarningf appends to the map that
\* vsc.warnings refers to now
UpstreamIteration ==
    /\ ~panicked
    /\ \E i \in inProgress :
          /\ calls[i].position < Len(upstreamLoop(calls[i].input))
          /\ LET it == upstreamIteration(vsc, calls[i], heap[vsc.warnings]) IN
             /\ heap' = [heap EXCEPT ![vsc.warnings] = it.warnings]
             /\ calls' = [calls EXCEPT ![i].locals = it.locals,
                                       ![i].position = calls[i].position + 1]
    /\ UNCHANGED <<virtualServerEx, vsc, request, vsErrs, vsrErrs, vsCfg, panicked, pc,
                   parent, fnArgs, fnResult>>

\* a call generates its routes and returns vscfg, vsc.warnings
ReturnCall ==
    /\ ~panicked
    /\ \E i \in inProgress :
          /\ calls[i].position = Len(upstreamLoop(calls[i].input))
          /\ calls' = [calls EXCEPT ![i].returned = TRUE,
                                    ![i].cfg = returnedConfig(vsc, calls[i]),
                                    ![i].warnings = vsc.warnings]
          /\ vsCfg' = returnedConfig(vsc, calls[i])
    /\ UNCHANGED <<virtualServerEx, vsc, request, vsErrs, vsrErrs, heap, panicked, pc, parent,
                   fnArgs, fnResult>>

\* the next iteration of a call adds a warning
writesWarnings(i) ==
    /\ calls[i].position < Len(upstreamLoop(calls[i].input))
    /\ upstreamIteration(vsc, calls[i], heap[vsc.warnings]).warnings # heap[vsc.warnings]

\* two calls write to the map vsc.warnings refers to at the same time: the Go runtime ends
\* the program with "fatal error: concurrent map writes"
ConcurrentMapWrites ==
    /\ ~panicked
    /\ \E i, j \in inProgress : i # j /\ writesWarnings(i) /\ writesWarnings(j)
    /\ panicked' = TRUE
    /\ UNCHANGED <<virtualServerEx, vsc, request, vsErrs, vsrErrs, vsCfg, pc, parent, fnArgs,
                   fnResult, heap,
                   calls>>

NextCalls == BeginCall \/ UpstreamIteration \/ ReturnCall

SpecCalls == InitCalls /\ [][NextCalls]_vars

NextConcurrent ==
    BeginConcurrentCall \/ UpstreamIteration \/ ReturnCall \/ ConcurrentMapWrites

SpecConcurrent == InitCalls /\ [][NextConcurrent]_vars

\* what a fresh configurator returns for the input of a call
freshResult(call) ==
    GenerateVirtualServerConfig(
        newVirtualServerConfigurator(vsc.cfgParams, vsc.isPlus, vsc.isResolverConfigured),
        call.input)

\* C17: after any sequence of calls on one configurator, the configuration and the warnings
\* a call has returned are what a fresh configurator returns for the same input, and they
\* stay so through every later call: no later call changes the map an earlier call returned.
C17_NoStateAcrossCalls ==
    \A i \in 1..Len(calls) :
        calls[i].returned =>
            /\ calls[i].cfg = freshResult(calls[i]).cfg
            /\ heap[calls[i].warnings] = freshResult(calls[i]).warnings

\* three calls have returned, the first and the third with the same input and warnings, the
\* second with another input and other warnings
C17_Witness ==
    /\ Len(calls) = 3 /\ inProgress = {}
    /\ calls[1].input = calls[3].input
    /\ calls[2].input # calls[1].input
    /\ heap[calls[1].warnings] # clearWarnings
    /\ heap[calls[2].warnings] # clearWarnings
    /\ heap[calls[2].warnings] # heap[calls[1].warnings]
    /\ calls[1].warnings # calls[3].warnings
    /\ heap[calls[1].warnings] = heap[calls[3].warnings]
    /\ calls[1].cfg = calls[3].cfg

\* C18: when two calls for different VirtualServers run concurrently on one configurator,
\* under every interleaving the program goes on and each call returns exactly the warnings
\* of its own input: no warning of one call is in the result of the other, none is lost.
C18_ConcurrentCallsIsolated ==
    /\ ~panicked
    /\ (Len(calls) = ConcurrentCalls /\ inProgress = {}) =>
           \A i \in 1..Len(calls) :
               heap[calls[i].warnings] = freshResult(calls[i]).warnings

(***************************************************************************)
(* Functions called on their own: fnArgs holds the arguments, fnResult     *)
(* what the function returned                                              *)
(***************************************************************************)

InitFunction(argSet) ==
    /\ fnArgs \in argSet
    /\ fnResult = noResult
    /\ virtualServerEx = noVirtualServerEx
    /\ vsc = newVirtualServerConfigurator(defaultCfgParams, FALSE, FALSE)
    /\ heap = <<>>
    /\ calls = <<>>
    /\ request = noRequest
    /\ vsErrs = <<>>
    /\ vsrErrs = <<>>
    /\ vsCfg = emptyVirtualServerConfig
    /\ panicked = FALSE
    /\ pc = "start"
    /\ parent = noParent

\* pc, fnArgs and fnResult are what a function called on its own works with
functionFrame ==
    <<virtualServerEx, vsc, request, vsErrs, vsrErrs, vsCfg, panicked, parent, heap, calls>>

(***************************************************************************)
(* generateSSLConfig                                                       *)
(***************************************************************************)

pemFileNameForMissingTLSSecret == "/etc/nginx/secrets/default"

\* generateSSLConfig that leaves the ciphers of a missing secret empty
generateSSLConfigNoCiphers(tls, tlsPemFileName, cfgParams) ==
    IF IsNil(tls) THEN Nil
    ELSE IF Deref(tls).Secret = "" THEN Nil
    ELSE LET name == IF tlsPemFileName # "" THEN tlsPemFileName
                     ELSE pemFileNameForMissingTLSSecret
         IN Ptr([HTTP2 |-> cfgParams.HTTP2, Certificate |-> name, CertificateKey |-> name,
                 Ciphers |-> ""])

\* *version2.SSL, nil when the VirtualServer has no TLS secret
generateSSLConfig(tls, tlsPemFileName, cfgParams) ==
    IF IsNil(tls) THEN Nil
    ELSE IF Deref(tls).Secret = "" THEN Nil
    ELSE LET name == IF tlsPemFileName # "" THEN tlsPemFileName
                     ELSE pemFileNameForMissingTLSSecret
             ciphers == IF tlsPemFileName # "" THEN "" ELSE "NULL"
         IN Ptr([HTTP2 |-> cfgParams.HTTP2, Certificate |-> name, CertificateKey |-> name,
                 Ciphers |-> ciphers])

TLSBlocks ==
    {Nil}
    \cup { Ptr([Secret |-> secret, Redirect |-> redirect]) :
             secret \in {"", "secret", "cafe-secret", "tls"},
             redirect \in {Nil, Ptr([Enable |-> TRUE, Code |-> Ptr(302), BasedOn |-> "scheme"])} }

PemFileNames ==
    {"", "secret.pem", "/etc/nginx/secrets/default-cafe-secret", "/etc/nginx/secrets/default"}

SSLArgs ==
    { [tls |-> tls, tlsPemFileName |-> tlsPemFileName, cfgParams |-> [HTTP2 |-> http2]] :
        tls \in TLSBlocks, tlsPemFileName \in PemFileNames, http2 \in BOOLEAN }

InitSSL == InitFunction(SSLArgs)

\* ssl := generateSSLConfig(virtualServerEx.VirtualServer.Spec.TLS, tlsPemFileName,
\* vsc.cfgParams)
GenerateSSLConfig ==
    /\ pc = "start"
    /\ fnResult' = generateSSLConfig(fnArgs.tls, fnArgs.tlsPemFileName, fnArgs.cfgParams)
    /\ pc' = "returned"
    /\ UNCHANGED <<fnArgs, functionFrame>>

NextSSL == GenerateSSLConfig

SpecSSL == InitSSL /\ [][NextSSL]_vars

\* C21: generateSSLConfig emits no SSL block when the TLS block is nil or its secret is
\* empty; with a secret and an empty pem filename it emits a block whose certificate and
\* key are both the filename for a missing secret and whose ciphers are NULL; with a secret
\* and a pem filename it emits a block whose certificate and key are both that filename and
\* whose ciphers are empty.
C21_SSLConfig ==
    pc = "returned" =>
        IF fnArgs.tls = <<>> \/ fnArgs.tls[1].Secret = ""
        THEN fnResult = <<>>
        ELSE /\ Len(fnResult) = 1
             /\ IF fnArgs.tlsPemFileName = ""
                THEN /\ fnResult[1].Certificate = pemFileNameForMissingTLSSecret
                     /\ fnResult[1].CertificateKey = pemFileNameForMissingTLSSecret
                     /\ fnResult[1].Ciphers = "NULL"
                ELSE /\ fnResult[1].Certificate = fnArgs.tlsPemFileName
                     /\ fnResult[1].CertificateKey = fnArgs.tlsPemFileName
                     /\ fnResult[1].Ciphers = ""

\* generateSSLConfig has returned the block of a secret that is missing from the cluster
C21_Witness ==
    /\ pc = "returned"
    /\ fnArgs.tls # <<>>
    /\ fnArgs.tls[1].Secret = "secret"
    /\ fnArgs.tlsPemFileName = ""
    /\ fnResult # <<>>
    /\ fnResult[1].Ciphers = "NULL"

(***************************************************************************)
(* The paths of the emitted locations                                      *)
(***************************************************************************)

LocationPaths == {"/tea", "=/tea", "~ ^/tea/.*", "~^/tea/.*", "~* ^/tea/.*\\.jpg$", "~*^/tea"}

\* a route of every shape: pass, redirect, return, splits, matches
PathRouteShapes ==
    { route(actionPass("tea"), <<>>, "", <<>>),
      route(actionRedirect, <<>>, "", <<>>),
      route(actionReturn, <<>>, "", <<>>),
      route(Nil, splitsEven, "", <<>>),
      route(actionPass("tea"), <<>>, "", <<matchOnHeader(actionPass("coffee"), <<>>)>>),
      route(Nil, splitsEven, "", <<matchOnHeader(actionReturn, <<>>)>>) }

PathsExSet ==
    { virtualServerExOf(
          virtualServer(<<upstreamFor("tea"), upstreamFor("coffee")>>, <<withPath(r, path)>>),
          <<>>) :
        r \in PathRouteShapes, path \in LocationPaths }

InitPaths == InitWith(PathsExSet)

SpecPaths == InitPaths /\ [][Next]_vars

\* the one route of the VirtualServer
theRoute == virtualServerEx.VirtualServer.Spec.Routes[1]

\* a regex path with its pattern in double quotes, any other path unchanged
renderedPath(path) ==
    LET withoutSpace(s) == IF Len(s) > 0 /\ SubSeq(s, 1, 1) = " " THEN SubSeq(s, 2, Len(s))
                           ELSE s
    IN IF Len(path) >= 2 /\ SubSeq(path, 1, 2) = "~*"
       THEN "~* \"" \o withoutSpace(SubSeq(path, 3, Len(path))) \o "\""
       ELSE IF Len(path) >= 1 /\ SubSeq(path, 1, 1) = "~"
       THEN "~ \"" \o withoutSpace(SubSeq(path, 2, Len(path))) \o "\""
       ELSE path

\* the path of the location or internal redirect emitted at the route's path
emittedRoutePath ==
    IF Len(theRoute.Matches) > 0 \/ Len(theRoute.Splits) > 0
    THEN vsCfg.Server.InternalRedirectLocations[1].Path
    ELSE vsCfg.Server.Locations[1].Path

routeIsEmitted ==
    /\ Generated /\ Validated /\ ~panicked
    /\ IF Len(theRoute.Matches) > 0 \/ Len(theRoute.Splits) > 0
       THEN Len(vsCfg.Server.InternalRedirectLocations) = 1
       ELSE Len(vsCfg.Server.Locations) = 1

\* C22: for every route whose path is a regex path, the location or internal-redirect
\* location emitted at the path of the route has the pattern in double quotes, whatever the
\* shape of the route (pass, redirect, return, splits or matches); prefix and exact paths
\* are emitted unchanged.
C22_PathRendering == routeIsEmitted => emittedRoutePath = renderedPath(theRoute.Path)

\* what holds of the paths: the location of a route that proxies has the rendered path, and
\* every other location or internal redirect has the path of the route as it is
pathsOfProxiedRoutesAreRendered ==
    routeIsEmitted =>
        emittedRoutePath =
            IF Len(theRoute.Matches) = 0 /\ Len(theRoute.Splits) = 0
               /\ theRoute.Action[1].Pass # ""
            THEN renderedPath(theRoute.Path)
            ELSE theRoute.Path

(***************************************************************************)
(* The indices of split clients and matches routes over a compile          *)
(***************************************************************************)

hasCompiled == pc \in {"generated", "served"} /\ ~panicked

\* the weights of a list of splits as a split client shows them
weightsOf(splits) == [j \in 1..Len(splits) |-> ToString(splits[j].Weight) \o "%"]

splitClientWeights(sc) == [j \in 1..Len(sc.Distributions) |-> sc.Distributions[j].Weight]

\* the matches route of the resource: its second route, after a route with splits
matchesRoute == virtualServerEx.VirtualServer.Spec.Routes[2]

\* the matches among the first n of the matches route that have splits
matchesWithSplits(n) == { k \in 1..n : Len(matchesRoute.Matches[k].Splits) > 0 }

\* the main map of the matches route
mainMaps == { k \in 1..Len(vsCfg.Maps) : vsCfg.Maps[k].Variable = "$vs_default_cafe_matches_0" }

\* C23: the split client at position i (from 0) of the generated SplitClients has the
\* variable $vs_<namespace>_<name>_splits_<i> and its j-th distribution has the value
\* @splits_<i>_split_<j>; in a matches route the split clients of the matches that have
\* splits come first, in match order, then the split client of the default splits of the
\* route, and the results of the main map are the variables of these same split clients.
C23_SplitClientIndices ==
    hasCompiled =>
        /\ \A i \in 1..Len(vsCfg.SplitClients) :
               /\ vsCfg.SplitClients[i].Variable = "$vs_default_cafe_splits_" \o ToString(i - 1)
               /\ \A j \in 1..Len(vsCfg.SplitClients[i].Distributions) :
                      vsCfg.SplitClients[i].Distributions[j].Value
                          = "@splits_" \o ToString(i - 1) \o "_split_" \o ToString(j - 1)
        /\ Cardinality(mainMaps) = 1
        /\ Len(vsCfg.SplitClients)
               = 1 + Cardinality(matchesWithSplits(Len(matchesRoute.Matches)))
                 + (IF Len(matchesRoute.Splits) > 0 THEN 1 ELSE 0)
        /\ \A k \in mainMaps :
               LET params == vsCfg.Maps[k].Parameters
                   n == Len(matchesRoute.Matches)
               IN /\ Len(params) = n + 1
                  /\ \A m \in matchesWithSplits(n) :
                         \* the route with splits before the matches route has split client 0
                         LET i == 1 + Cardinality(matchesWithSplits(m - 1)) IN
                         /\ params[m].Result = "$vs_default_cafe_splits_" \o ToString(i)
                         /\ splitClientWeights(vsCfg.SplitClients[i + 1])
                                = weightsOf(matchesRoute.Matches[m].Splits)
                  /\ Len(matchesRoute.Splits) > 0 =>
                         LET i == 1 + Cardinality(matchesWithSplits(n)) IN
                         /\ params[n + 1].Result = "$vs_default_cafe_splits_" \o ToString(i)
                         /\ splitClientWeights(vsCfg.SplitClients[i + 1])
                                = weightsOf(matchesRoute.Splits)

\* a matches route whose two matches have splits and which has default splits was compiled
\* after a route with splits: four split clients, the main map naming the last three
C23_Witness ==
    /\ hasCompiled /\ Validated
    /\ Len(vsCfg.SplitClients) = 4
    /\ Len(matchesRoute.Matches) = 2
    /\ \E k \in mainMaps :
           /\ vsCfg.Maps[k].Parameters[1].Result = "$vs_default_cafe_splits_1"
           /\ vsCfg.Maps[k].Parameters[2].Result = "$vs_default_cafe_splits_2"
           /\ vsCfg.Maps[k].Parameters[3].Result = "$vs_default_cafe_splits_3"
    /\ splitClientWeights(vsCfg.SplitClients[2]) = <<"60%", "40%">>
    /\ splitClientWeights(vsCfg.SplitClients[3]) = <<"50%", "50%">>
    /\ splitClientWeights(vsCfg.SplitClients[4]) = <<"30%", "30%", "40%">>

(***************************************************************************)
(* The order in which GenerateVirtualServerConfig assembles the config     *)
(***************************************************************************)

matchesWithAction == <<matchOnHeader(actionPass("tea"), <<>>)>>
matchesWithSplitsEven == <<matchOnHeader(actionPass("tea"), <<>>), matchOnHeader(Nil, splitsEven)>>

\* the first route of the VirtualServer, at /r1
FirstAssemblyRoutes ==
    { withPath(r, "/r1") :
        r \in { route(actionPass("tea"), <<>>, "", <<>>),
                route(Nil, splitsEven, "", <<>>),
                route(actionPass("coffee"), <<>>, "", matchesWithAction),
                route(Nil, splitsThree, "", matchesWithSplitsEven) } }

\* the second route: one that delegates /coffee to the VirtualServerRoute default/coffee,
\* with or without matches of its own, or one that the VirtualServer serves itself
SecondAssemblyRoutes ==
    { withPath(route(Nil, <<>>, "default/coffee", <<>>), "/coffee"),
      withPath(route(Nil, <<>>, "default/coffee", matchesWithSplitsEven), "/coffee"),
      withPath(route(actionPass("coffee"), <<>>, "", <<>>), "/r2"),
      withPath(route(actionReturn, <<>>, "", matchesWithAction), "/r2") }

\* the third route: delegates /tea to default/tea, or is served by the VirtualServer
ThirdAssemblyRoutes ==
    { withPath(route(Nil, <<>>, "default/tea", <<>>), "/tea"),
      withPath(route(Nil, splitsEven, "", <<>>), "/r3"),
      withPath(route(Nil, splitsEven, "", matchesWithSplitsEven), "/r3") }

coffeeVirtualServerRoutes ==
    { virtualServerRoute("coffee", <<upstreamFor("coffee"), upstreamFor("tea")>>, subroutes) :
        subroutes \in
          { <<withPath(route(Nil, splitsEven, "", <<>>), "/coffee/a"),
              withPath(route(actionPass("coffee"), <<>>, "", matchesWithAction), "/coffee/b")>>,
            <<withPath(route(Nil, splitsEven, "", matchesWithSplitsEven), "/coffee/a")>>,
            <<withPath(route(actionPass("coffee"), <<>>, "", <<>>), "/coffee")>> } }

teaVirtualServerRoute ==
    virtualServerRoute("tea", <<upstreamFor("tea"), upstreamFor("coffee")>>,
        <<withPath(route(actionPass("tea"), <<>>, "", matchesWithAction), "/tea/a"),
          withPath(route(Nil, splitsEven, "", <<>>), "/tea/b")>>)

AssemblyVirtualServerRouteLists ==
    { <<>> }
    \cup { <<c>> : c \in coffeeVirtualServerRoutes }
    \cup { <<c, teaVirtualServerRoute>> : c \in coffeeVirtualServerRoutes }
    \cup { <<teaVirtualServerRoute, c>> : c \in coffeeVirtualServerRoutes }

AssemblyExSet ==
    { virtualServerExOf(
          virtualServer(<<upstreamFor("tea"), upstreamFor("coffee")>>, <<r1, r2, r3>>), vsrs) :
        r1 \in FirstAssemblyRoutes, r2 \in SecondAssemblyRoutes, r3 \in ThirdAssemblyRoutes,
        vsrs \in AssemblyVirtualServerRouteLists }

InitAssembly == InitWith(AssemblyExSet)

SpecAssembly == InitAssembly /\ [][Next]_vars

\* the two parts of loweredRoutes, in the order GenerateVirtualServerConfig lowers them
routesOfVS == SelectSeq(virtualServerEx.VirtualServer.Spec.Routes, LAMBDA r : r.Route = "")

subroutesOfVSRs ==
    Flatten([k \in 1..Len(virtualServerEx.VirtualServerRoutes) |->
                virtualServerEx.VirtualServerRoutes[k].Spec.Subroutes])

\* the number of split clients and of locations a lowered route needs
splitClientsOf(r) ==
    IF Len(r.Matches) > 0
    THEN Cardinality({ k \in 1..Len(r.Matches) : Len(r.Matches[k].Splits) > 0 })
         + (IF Len(r.Splits) > 0 THEN 1 ELSE 0)
    ELSE IF Len(r.Splits) > 0 THEN 1 ELSE 0

RECURSIVE splitsLocationsOfMatches(_, _)
splitsLocationsOfMatches(matches, k) ==
    IF k > Len(matches) THEN 0
    ELSE (IF Len(matches[k].Splits) > 0 THEN Len(matches[k].Splits) ELSE 1)
         + splitsLocationsOfMatches(matches, k + 1)

locationsOf(r) ==
    (IF Len(r.Matches) > 0 THEN splitsLocationsOfMatches(r.Matches, 1) ELSE 0)
    + (IF Len(r.Splits) > 0 THEN Len(r.Splits) ELSE 1)

RECURSIVE splitClientsBefore(_, _)
splitClientsBefore(routes, p) ==
    IF p <= 1 THEN 0 ELSE splitClientsBefore(routes, p - 1) + splitClientsOf(routes[p - 1])

RECURSIVE locationsBefore(_, _)
locationsBefore(routes, p) ==
    IF p <= 1 THEN 0 ELSE locationsBefore(routes, p - 1) + locationsOf(routes[p - 1])

matchesRoutesBefore(routes, p) ==
    Cardinality({ q \in 1..(p - 1) : Len(routes[q].Matches) > 0 })

\* the internal redirects of the routes from the p-th on
RECURSIVE redirectsFrom(_, _)
redirectsFrom(routes, p) ==
    IF p > Len(routes) THEN <<>>
    ELSE (IF Len(routes[p].Matches) > 0
          THEN <<[Path |-> routes[p].Path,
                  Destination |-> "$vs_default_cafe_matches_"
                                      \o ToString(matchesRoutesBefore(routes, p))]>>
          ELSE IF Len(routes[p].Splits) > 0
          THEN <<[Path |-> routes[p].Path,
                  Destination |-> "$vs_default_cafe_splits_"
                                      \o ToString(splitClientsBefore(routes, p))]>>
          ELSE <<>>)
         \o redirectsFrom(routes, p + 1)

\* the names of the upstreams in the order of the resources that declare them
upstreamNamesOfVS ==
    [i \in 1..Len(virtualServerEx.VirtualServer.Spec.Upstreams) |->
        "vs_default_cafe_" \o virtualServerEx.VirtualServer.Spec.Upstreams[i].Name]

upstreamNamesOfVSRs ==
    Flatten([k \in 1..Len(virtualServerEx.VirtualServerRoutes) |->
                LET vsr == virtualServerEx.VirtualServerRoutes[k] IN
                [i \in 1..Len(vsr.Spec.Upstreams) |->
                    "vs_default_cafe_vsr_default_" \o vsr.Name \o "_"
                        \o vsr.Spec.Upstreams[i].Name]])

MainMapVariables == { "$vs_default_cafe_matches_" \o ToString(k) : k \in 0..8 }

\* the main maps of the config, in the order of vsCfg.Maps
emittedMainMaps == SelectSeq(vsCfg.Maps, LAMBDA m : m.Variable \in MainMapVariables)

\* C24: the upstreams of the VirtualServer come first, in declaration order, then the
\* upstreams of each VirtualServerRoute in the order of the list; a route of the
\* VirtualServer that sets the route field adds no location, map, split client or
\* internal redirect and advances no counter; the routes of the VirtualServer are lowered
\* before the subroutes, so that the indices of the subroutes start at the counts the
\* VirtualServer's routes consumed; the match index grows by one per route with matches.
C24_AssemblyOrder ==
    (Generated /\ ~panicked) =>
        /\ [i \in 1..Len(vsCfg.Upstreams) |-> vsCfg.Upstreams[i].Name]
               = upstreamNamesOfVS \o upstreamNamesOfVSRs
        /\ vsCfg.Server.InternalRedirectLocations = redirectsFrom(loweredRoutes, 1)
        /\ Len(vsCfg.SplitClients) = splitClientsBefore(loweredRoutes, Len(loweredRoutes) + 1)
        /\ Len(vsCfg.Server.Locations) = locationsBefore(loweredRoutes, Len(loweredRoutes) + 1)
        /\ Len(emittedMainMaps) = matchesRoutesBefore(loweredRoutes, Len(loweredRoutes) + 1)
        /\ \A k \in 1..Len(emittedMainMaps) :
               emittedMainMaps[k].Variable = "$vs_default_cafe_matches_" \o ToString(k - 1)
        /\ \A i \in 1..Len(vsCfg.SplitClients) :
               vsCfg.SplitClients[i].Variable = "$vs_default_cafe_splits_" \o ToString(i - 1)
        \* the first location of a lowered route without matches and splits is its own
        /\ \A p \in 1..Len(loweredRoutes) :
               (Len(loweredRoutes[p].Matches) = 0 /\ Len(loweredRoutes[p].Splits) = 0)
                   => vsCfg.Server.Locations[locationsBefore(loweredRoutes, p) + 1].Path
                          = loweredRoutes[p].Path

\* a validated VirtualServer whose second route delegates to a VirtualServerRoute and has
\* matches of its own, between two routes with matches, with two VirtualServerRoutes whose
\* subroutes have splits and matches, was compiled
C24_Witness ==
    /\ Generated /\ ~panicked /\ Validated
    /\ Len(virtualServerEx.VirtualServerRoutes) = 2
    /\ Len(routesOfVS) = 2
    /\ Len(virtualServerEx.VirtualServer.Spec.Routes[2].Matches) > 0
    /\ virtualServerEx.VirtualServer.Spec.Routes[2].Route # ""
    /\ Len(routesOfVS[1].Matches) > 0 /\ Len(routesOfVS[2].Matches) > 0
    /\ Len(emittedMainMaps) >= 4
    /\ Len(vsCfg.SplitClients) >= 5
    /\ Len(vsCfg.Upstreams) = 6

(***************************************************************************)
(* Health checks and their status matches                                  *)
(***************************************************************************)

\* the ports of a health-check block (an int) and of an upstream (a uint16)
HealthCheckPorts == {-1, 0, 8080, 65535, 65536}
UpstreamPorts == {0, 80, 65535}

healthCheckBlock(enable, statusMatch, port) ==
    Ptr([Enable |-> enable, Path |-> "/healthz", Fails |-> 0, Passes |-> 0, Port |-> port,
         StatusMatch |-> statusMatch])

HealthCheckBlocks ==
    { Nil } \cup { healthCheckBlock(enable, statusMatch, port) :
                     enable \in BOOLEAN, statusMatch \in {"", "200"},
                     port \in HealthCheckPorts }

\* the upstream tea of the VirtualServer, with every block and every port
CheckedUpstreams ==
    { [upstreamFor("tea") EXCEPT !.HealthCheck = hc, !.Port = port] :
        hc \in HealthCheckBlocks, port \in UpstreamPorts }

\* the upstream coffee, of the VirtualServer or of a VirtualServerRoute
CheckedCoffeeUpstreams ==
    { upstreamFor("coffee"),
      [upstreamFor("coffee") EXCEPT !.HealthCheck = healthCheckBlock(TRUE, "! 500", 0)],
      [upstreamFor("coffee") EXCEPT !.HealthCheck = healthCheckBlock(TRUE, "", 9090)],
      [upstreamFor("coffee") EXCEPT !.HealthCheck = healthCheckBlock(FALSE, "200", 9090)],
      [upstreamFor("coffee") EXCEPT !.SlowStart = "10s"],
      [upstreamFor("coffee") EXCEPT !.Queue = queue(10, "10s")],
      [upstreamFor("coffee") EXCEPT !.SessionCookie = sessionCookie("srv_id")] }

CheckedUpstreamLists ==
    { <<u>> : u \in CheckedUpstreams }
    \cup { <<c, u>> : c \in { x \in CheckedCoffeeUpstreams :
                                x.HealthCheck \in {Nil, healthCheckBlock(TRUE, "! 500", 0)} },
                      u \in { x \in CheckedUpstreams : x.Port = 80 } }

CheckedVirtualServerRouteLists ==
    { <<>> }
    \cup { <<virtualServerRoute("coffee", <<c>>,
               <<withPath(route(actionPass("coffee"), <<>>, "", <<>>), "/coffee")>>)>> :
             c \in CheckedCoffeeUpstreams }

HealthChecksExSet ==
    { virtualServerExOf(
          virtualServer(upstreams,
              <<withPath(route(actionPass("tea"), <<>>, "", <<>>), "/tea"),
                withPath(route(Nil, <<>>, "default/coffee", <<>>), "/coffee")>>),
          vsrs) :
        upstreams \in CheckedUpstreamLists, vsrs \in CheckedVirtualServerRouteLists }

InitHealthChecks == InitWith(HealthChecksExSet)

SpecHealthChecks == InitHealthChecks /\ [][Next]_vars

\* the upstreams of the resource with the names they are emitted under, in the order of
\* the upstream loops: [name, upstream]
namedUpstreamsOfVS ==
    [i \in 1..Len(virtualServerEx.VirtualServer.Spec.Upstreams) |->
        [name |-> upstreamNamesOfVS[i],
         upstream |-> virtualServerEx.VirtualServer.Spec.Upstreams[i]]]

namedUpstreamsOfVSRs ==
    Flatten([k \in 1..Len(virtualServerEx.VirtualServerRoutes) |->
                LET vsr == virtualServerEx.VirtualServerRoutes[k] IN
                [i \in 1..Len(vsr.Spec.Upstreams) |->
                    [name |-> "vs_default_cafe_vsr_default_" \o vsr.Name \o "_"
                                  \o vsr.Spec.Upstreams[i].Name,
                     upstream |-> vsr.Spec.Upstreams[i]]]])

namedUpstreams == namedUpstreamsOfVS \o namedUpstreamsOfVSRs

hasEnabledHealthCheck(u) == ~IsNil(u.HealthCheck) /\ Deref(u.HealthCheck).Enable

hasStatusMatch(u) == hasEnabledHealthCheck(u) /\ Deref(u.HealthCheck).StatusMatch # ""

\* the upstreams that have a health check emitted, and those with a status match
checkedUpstreams == SelectSeq(namedUpstreams, LAMBDA n : hasEnabledHealthCheck(n.upstream))

matchedUpstreams == SelectSeq(namedUpstreams, LAMBDA n : hasStatusMatch(n.upstream))

\* C25: the health checks of the config are those of the upstreams, of the VirtualServer
\* and of the VirtualServerRoutes, whose health-check block has enable set; the status
\* matches are those of the upstreams among them whose statusMatch is not empty, named
\* <upstreamName>_match, which is then the Match of the health check, and Match is empty
\* otherwise; so every non-empty Match names a status match of the config.
C25_HealthChecksAndStatusMatches ==
    (Generated /\ ~panicked) =>
        /\ [i \in 1..Len(vsCfg.Server.HealthChecks) |-> vsCfg.Server.HealthChecks[i].Name]
               = [i \in 1..Len(checkedUpstreams) |-> checkedUpstreams[i].name]
        /\ vsCfg.StatusMatches
               = [i \in 1..Len(matchedUpstreams) |->
                     [Name |-> matchedUpstreams[i].name \o "_match",
                      Code |-> Deref(matchedUpstreams[i].upstream.HealthCheck).StatusMatch]]
        /\ \A i \in 1..Len(vsCfg.Server.HealthChecks) :
               /\ vsCfg.Server.HealthChecks[i].Match
                      = IF hasStatusMatch(checkedUpstreams[i].upstream)
                        THEN checkedUpstreams[i].name \o "_match"
                        ELSE ""
               /\ vsCfg.Server.HealthChecks[i].Match # ""
                      => \E k \in 1..Len(vsCfg.StatusMatches) :
                             vsCfg.StatusMatches[k].Name = vsCfg.Server.HealthChecks[i].Match

\* a validated resource was compiled for NGINX Plus whose VirtualServer has an upstream
\* with a disabled block that sets statusMatch and whose VirtualServerRoute has an upstream
\* with an enabled block that sets it, as the first upstream of the VirtualServer does
C25_Witness ==
    /\ Generated /\ ~panicked /\ Validated /\ vsc.isPlus
    /\ Len(namedUpstreams) = 3
    /\ \E i \in 1..Len(namedUpstreamsOfVS) :
           /\ ~IsNil(namedUpstreamsOfVS[i].upstream.HealthCheck)
           /\ ~Deref(namedUpstreamsOfVS[i].upstream.HealthCheck).Enable
           /\ Deref(namedUpstreamsOfVS[i].upstream.HealthCheck).StatusMatch # ""
    /\ Len(vsCfg.Server.HealthChecks) = 2
    /\ vsCfg.Server.HealthChecks[2].Match = "vs_default_cafe_vsr_default_coffee_coffee_match"
    /\ Len(vsCfg.StatusMatches) = 2


\* the port of the health-check block and of the upstream of the i-th emitted health check
blockPort(i) == Deref(checkedUpstreams[i].upstream.HealthCheck).Port

upstreamPort(i) == checkedUpstreams[i].upstream.Port

\* C29: the port of an emitted health check is the port of the health-check block when
\* that is greater than 0 and the port of the upstream otherwise; when the resource passed
\* the validation for NGINX Plus, the emitted port is within 1..65535.
C29_HealthCheckPort ==
    (Generated /\ ~panicked) =>
        \A i \in 1..Len(vsCfg.Server.HealthChecks) :
            /\ vsCfg.Server.HealthChecks[i].Port
                   = IF blockPort(i) > 0 THEN blockPort(i) ELSE upstreamPort(i)
            /\ (Validated /\ vsc.isPlus)
                   => (1 <= vsCfg.Server.HealthChecks[i].Port
                       /\ vsCfg.Server.HealthChecks[i].Port <= 65535)

\* a resource that passed the validation for NGINX Plus was compiled: the block of one
\* health check has a negative port and takes the upstream's, the block of another has a
\* port of its own
C29_Witness ==
    /\ Generated /\ ~panicked /\ Validated /\ vsc.isPlus
    /\ \E i, j \in 1..Len(vsCfg.Server.HealthChecks) :
           /\ blockPort(i) < 0
           /\ vsCfg.Server.HealthChecks[i].Port = 65535
           /\ blockPort(j) = 9090
           /\ vsCfg.Server.HealthChecks[j].Port = 9090
           /\ upstreamPort(j) = 80

(***************************************************************************)
(* The fallback of a route with matches                                    *)
(***************************************************************************)

\* the route sets exactly one of action and splits
hasOneFallback(r) == (~IsNil(r.Action)) # (Len(r.Splits) > 0)

\* C26: a route with matches passes validateRoute only if it sets exactly one of action
\* and splits; the route field does not count, so that a VirtualServer with a route that
\* has matches and a route field but neither action nor splits does not pass validation.
C26_MatchesNeedFallback ==
    (pc # "start" /\ vsErrs = <<>>) =>
        \A i \in 1..Len(virtualServerEx.VirtualServer.Spec.Routes) :
            Len(virtualServerEx.VirtualServer.Spec.Routes[i].Matches) > 0
                => hasOneFallback(virtualServerEx.VirtualServer.Spec.Routes[i])

\* what the validator does require of a route with matches that passes: exactly one of
\* action, splits and route
matchesNeedOneOfActionSplitsRoute ==
    (pc # "start" /\ vsErrs = <<>>) =>
        \A i \in 1..Len(virtualServerEx.VirtualServer.Spec.Routes) :
            LET r == virtualServerEx.VirtualServer.Spec.Routes[i] IN
            Len(r.Matches) > 0
                => (IF ~IsNil(r.Action) THEN 1 ELSE 0) + (IF Len(r.Splits) > 0 THEN 1 ELSE 0)
                   + (IF r.Route # "" THEN 1 ELSE 0) = 1

(***************************************************************************)
(* What the internal redirects, the main maps and the split clients name   *)
(***************************************************************************)

splitClientVariables == { vsCfg.SplitClients[i].Variable : i \in 1..Len(vsCfg.SplitClients) }

mainMapVariables == { emittedMainMaps[k].Variable : k \in 1..Len(emittedMainMaps) }

\* the emitted locations with the path
locationsAt(path) ==
    { i \in 1..Len(vsCfg.Server.Locations) : vsCfg.Server.Locations[i].Path = path }

isNamedLocation(value) == HasPrefix(value, "@")

isVariable(value) == HasPrefix(value, "$")

\* C27: in a generated config every internal redirect goes to the variable of an emitted
\* split client or main map; every result of a main map and every value of a split-client
\* distribution that is a named location is the path of exactly one emitted location; and
\* every result of a main map that is a variable is the variable of an emitted split
\* client.
C27_ReferentialIntegrity ==
    (Generated /\ ~panicked) =>
        /\ \A i \in 1..Len(vsCfg.Server.InternalRedirectLocations) :
               vsCfg.Server.InternalRedirectLocations[i].Destination
                   \in splitClientVariables \cup mainMapVariables
        /\ \A k \in 1..Len(emittedMainMaps) :
               \A p \in 1..Len(emittedMainMaps[k].Parameters) :
                   LET result == emittedMainMaps[k].Parameters[p].Result IN
                   /\ isNamedLocation(result) => Cardinality(locationsAt(result)) = 1
                   /\ isVariable(result) => result \in splitClientVariables
        /\ \A i \in 1..Len(vsCfg.SplitClients) :
               \A j \in 1..Len(vsCfg.SplitClients[i].Distributions) :
                   LET value == vsCfg.SplitClients[i].Distributions[j].Value IN
                   isNamedLocation(value) => Cardinality(locationsAt(value)) = 1

\* a validated resource was compiled to internal redirects that go to a split client and
\* to a main map, a main map with a named location and a variable among its results and
\* split clients of the VirtualServer and of a VirtualServerRoute
C27_Witness ==
    /\ Generated /\ ~panicked /\ Validated
    /\ Len(virtualServerEx.VirtualServerRoutes) = 2
    /\ \E i, j \in 1..Len(vsCfg.Server.InternalRedirectLocations) :
           /\ vsCfg.Server.InternalRedirectLocations[i].Destination \in splitClientVariables
           /\ vsCfg.Server.InternalRedirectLocations[j].Destination \in mainMapVariables
    /\ \E k \in 1..Len(emittedMainMaps) :
           \E p, q \in 1..Len(emittedMainMaps[k].Parameters) :
               /\ isNamedLocation(emittedMainMaps[k].Parameters[p].Result)
               /\ isVariable(emittedMainMaps[k].Parameters[q].Result)
    /\ Len(vsCfg.SplitClients) >= 4
    /\ \A i \in 1..Len(vsCfg.SplitClients) :
           \A j \in 1..Len(vsCfg.SplitClients[i].Distributions) :
               isNamedLocation(vsCfg.SplitClients[i].Distributions[j].Value)


(***************************************************************************)
(* The features of NGINX Plus in a config for NGINX                        *)
(***************************************************************************)

\* the upstreams of the resource that set a feature of NGINX Plus
usesPlusFeature(u) ==
    \/ ~IsNil(u.HealthCheck)
    \/ u.SlowStart # ""
    \/ ~IsNil(u.Queue)
    \/ ~IsNil(u.SessionCookie)

\* C28: when the VirtualServer and its VirtualServerRoutes passed the validation for
\* NGINX (isPlus false), the config generated for NGINX has no health check, no status
\* match and no upstream with a slow start, a queue or a session cookie.
C28_NoPlusFeaturesInOSS ==
    (Generated /\ ~panicked /\ Validated /\ ~vsc.isPlus) =>
        /\ vsCfg.Server.HealthChecks = <<>>
        /\ vsCfg.StatusMatches = <<>>
        /\ \A i \in 1..Len(vsCfg.Upstreams) :
               /\ vsCfg.Upstreams[i].SlowStart = ""
               /\ IsNil(vsCfg.Upstreams[i].Queue)
               /\ IsNil(vsCfg.Upstreams[i].SessionCookie)

\* a VirtualServer with two upstreams and a VirtualServerRoute with one passed the
\* validation for NGINX and were compiled for NGINX
C28_Witness ==
    /\ Generated /\ ~panicked /\ Validated /\ ~vsc.isPlus
    /\ Len(virtualServerEx.VirtualServerRoutes) = 1
    /\ Len(vsCfg.Upstreams) = 3
    /\ \A i \in 1..Len(namedUpstreams) : ~usesPlusFeature(namedUpstreams[i].upstream)


(***************************************************************************)
(* Warnings.Add                                                            *)
(***************************************************************************)

\* Add that appends the messages of a key to those the receiver holds for it
AddAppending(h, w, warnings) ==
    [h EXCEPT ![w] =
        [k \in DOMAIN h[w] \cup DOMAIN h[warnings] |->
            IF k \in DOMAIN h[warnings]
            THEN (IF k \in DOMAIN h[w] THEN h[w][k] ELSE <<>>) \o h[warnings][k]
            ELSE h[w][k]]]

\* w.Add(warnings), for maps at the addresses w and warnings of the heap h: the heap after
\* `for k, v := range warnings { w[k] = v }`
Add(h, w, warnings) ==
    [h EXCEPT ![w] =
        [k \in DOMAIN h[w] \cup DOMAIN h[warnings] |->
            IF k \in DOMAIN h[warnings] THEN h[warnings][k] ELSE h[w][k]]]

WarningOwners ==
    {"VirtualServer default/cafe", "VirtualServerRoute default/coffee",
     "VirtualServerRoute default/tea"}

MessageLists == { <<>>, <<"m1">>, <<"m2">> }

\* the Warnings maps: message lists for some of the owners
WarningsMaps == UNION { [owners -> MessageLists] : owners \in SUBSET WarningOwners }

\* the receiver is at address 1; the argument is another map, at address 2, or the
\* receiver itself
InitWarnings ==
    /\ heap \in { <<w, other>> : w \in WarningsMaps, other \in WarningsMaps }
    /\ fnArgs \in { [w |-> 1, warnings |-> a] : a \in {1, 2} }
    /\ fnResult = noResult
    /\ virtualServerEx = noVirtualServerEx
    /\ vsc = newVirtualServerConfigurator(defaultCfgParams, FALSE, FALSE)
    /\ calls = <<>>
    /\ request = noRequest
    /\ vsErrs = <<>>
    /\ vsrErrs = <<>>
    /\ vsCfg = emptyVirtualServerConfig
    /\ panicked = FALSE
    /\ pc = "start"
    /\ parent = noParent

\* w.Add(warnings)
WarningsAdd ==
    /\ pc = "start"
    /\ heap' = Add(heap, fnArgs.w, fnArgs.warnings)
    /\ pc' = "returned"
    /\ UNCHANGED <<virtualServerEx, vsc, request, vsErrs, vsrErrs, vsCfg, panicked, parent,
                   calls, fnArgs, fnResult>>

NextWarnings == WarningsAdd

SpecWarnings == InitWarnings /\ [][NextWarnings]_vars

\* C30: after w.Add(other) the receiver holds, for every key of other, the message list
\* of other and nothing of what it held for that key; the entries of the keys that other
\* does not have are as they were; other is as it was.
C30_WarningsAdd ==
    [][(pc = "start" /\ pc' = "returned") =>
          LET w == fnArgs.w
              other == fnArgs.warnings
          IN /\ DOMAIN heap'[w] = DOMAIN heap[w] \cup DOMAIN heap[other]
             /\ \A k \in DOMAIN heap[other] : heap'[w][k] = heap[other][k]
             /\ \A k \in DOMAIN heap[w] \ DOMAIN heap[other] : heap'[w][k] = heap[w][k]
             /\ heap'[other] = heap[other]
             /\ Len(heap') = Len(heap)]_vars

\* Add has returned: the receiver holds the messages of other for the key they share and
\* for a key it gained, and messages of its own for a key other does not have
C30_Witness ==
    /\ pc = "returned"
    /\ fnArgs.w = 1 /\ fnArgs.warnings = 2
    /\ DOMAIN heap[2] = {"VirtualServer default/cafe", "VirtualServerRoute default/coffee"}
    /\ DOMAIN heap[1] = WarningOwners
    /\ heap[1]["VirtualServer default/cafe"] = <<"m2">>
    /\ heap[2]["VirtualServer default/cafe"] = <<"m2">>
    /\ heap[1]["VirtualServerRoute default/coffee"] = <<>>
    /\ heap[1]["VirtualServerRoute default/tea"] = <<"m1">>

====
